---- MODULE Spec2Model ----
(***************************************************************************)
(* Model of the Blackjack decision engine (src/src/api/decision_engine.py) *)
(* as a state machine: one engine object, a caller that invokes its public *)
(* methods, and one step per random draw of the Monte Carlo simulation.    *)
(*                                                                         *)
(* Floats are modelled exactly: an expected value is an integer number of  *)
(* 1/EvScale units, so that wins / trials + true_count * 0.005 is exact.   *)
(***************************************************************************)
EXTENDS Integers, Sequences, FiniteSets, TLC

\* ------------------------------------------------------------------------
\* Bounds of the model
\* ------------------------------------------------------------------------
MaxDecks == 1        \* num_decks ranges over 1..MaxDecks
MaxRounds == 1       \* simulation_rounds ranges over 1..MaxRounds
MaxHand == 3         \* player hands of the simulated calls have 0..MaxHand cards
MaxPool == 2         \* a simulated card pool holds 0..MaxPool cards
MaxValueHand == 3    \* hands given to calculate_hand_value alone
MaxSeen == 5         \* seen lists given to get_remaining_cards alone
MaxRequests == 2     \* middleware invocations running at the same time
MaxCountCards == 3   \* card lists given to calculate_running_count (besides the three lists of the unit test)

\* ------------------------------------------------------------------------
\* Ranks and input domains
\* ------------------------------------------------------------------------
\* key order of standard_deck / card_values (dict insertion order)
RankOrder == <<"A", "2", "3", "4", "5", "6", "7", "8", "9", "10", "J", "Q", "K">>

Rank == {RankOrder[i] : i \in 1..Len(RankOrder)}

\* ranks of the hands, upcards and pools of the simulated calls
HandRanks == {"A", "6", "10", "K"}
UpRanks == {"A", "6", "10"}
PoolRanks == {"A", "6", "10"}
SeenRanks == {"A", "10", "J"}
TrueCounts == {-2, 0, 3}
ActionNames == <<"hit", "stand", "double", "split">>

SeqsUpTo(S, n) == UNION {[1..k -> S] : k \in 0..n}

Range(s) == {s[i] : i \in 1..Len(s)}

Occurrences(s, x) == Cardinality({i \in 1..Len(s) : s[i] = x})

Max2(a, b) == IF a >= b THEN a ELSE b

RECURSIVE Factorial(_)
Factorial(n) == IF n <= 1 THEN 1 ELSE n * Factorial(n - 1)

\* one bet = EvScale units; 0.005 = EvScale / 200 units exactly
EvScale == 200 * Factorial(MaxRounds)

VARIABLES
    num_decks,          \* self.num_decks
    simulation_rounds,  \* self.simulation_rounds
    standard_deck,      \* self.standard_deck
    card_values,        \* self.card_values
    op,                 \* the public method the caller is in ("none" between calls)
    pc,                 \* position inside the call
    player_cards,       \* caller's player hand (argument)
    dealer_upcard,      \* argument
    seen_cards,         \* caller's seen list (argument)
    true_count,         \* argument
    remaining_cards,    \* the pool mapping given to simulate_player_action
    actions,            \* calculate_expected_values: legal actions
    expected_values,    \* calculate_expected_values: dict, as insertion-ordered pairs
    action,             \* simulate_player_action: action argument
    wins,               \* simulate_player_action: sum of net returns
    total_simulations,  \* simulate_player_action: completed trials
    round,              \* simulate_player_action: loop iterations started
    player_hand,        \* trial: working copy of the hand
    deck_copy,          \* trial: copy of the pool mapping
    deck,               \* trial: flattened pool
    bet_multiplier,     \* trial
    net,                \* trial: the amount the trial added to wins
    dealer_pool,        \* simulate_dealer_hand: remaining_cards argument
    dealer_cards,       \* simulate_dealer_hand
    dealer_deck,        \* simulate_dealer_hand: flattened pool
    dealer_value,       \* simulate_dealer_hand: value / return value
    is_soft,            \* simulate_dealer_hand
    draws,              \* number of random.choice calls made by the current call
    request,            \* arguments of a call of the counting and bankroll functions
    result,             \* return value of the last finished call
    limiter_redis,      \* FastAPILimiter.redis is set (not None)
    redis_store,        \* Redis: rate-limit key -> counter, for the keys that exist
    requests            \* the running invocations of rate_limit_middleware

engineVars == <<num_decks, simulation_rounds, standard_deck, card_values>>
argVars == <<player_cards, dealer_upcard, seen_cards, true_count>>
evVars == <<actions, expected_values>>
actionVars == <<action, wins, total_simulations, round>>
trialVars == <<player_hand, deck_copy, deck, bet_multiplier, net>>
dealerVars == <<dealer_pool, dealer_cards, dealer_deck, dealer_value, is_soft>>
rateVars == <<limiter_redis, redis_store, requests>>
coreVars == <<engineVars, op, pc, argVars, remaining_cards, evVars, actionVars,
              trialVars, dealerVars, draws, request, result>>
vars == <<coreVars, rateVars>>

\* the slots of concurrently running middleware invocations
Slots == 1..MaxRequests

\* redis.get of a key that does not exist: None
RedisNone == -1

IdleRequest ==
    [pc |-> "idle", path |-> "", host |-> "", current |-> RedisNone,
     status |-> 0, remaining |-> 0]

\* ------------------------------------------------------------------------
\* BlackjackDecisionEngine.__init__
\* ------------------------------------------------------------------------
CardValuesInit ==
    [r \in Rank |->
        CASE r = "A" -> <<1, 11>>
          [] r \in {"10", "J", "Q", "K"} -> <<10>>
          [] r = "2" -> <<2>>
          [] r = "3" -> <<3>>
          [] r = "4" -> <<4>>
          [] r = "5" -> <<5>>
          [] r = "6" -> <<6>>
          [] r = "7" -> <<7>>
          [] r = "8" -> <<8>>
          [] r = "9" -> <<9>>]

StandardDeckInit == [r \in Rank |-> 4]

\* ------------------------------------------------------------------------
\* calculate_hand_value
\* ------------------------------------------------------------------------
\* the for loop: <<total, aces>> with every Ace counted as 11
RECURSIVE SumCards(_, _, _)
SumCards(cards, total, aces) ==
    IF cards = <<>> THEN <<total, aces>>
    ELSE IF Head(cards) = "A"
         THEN SumCards(Tail(cards), total + 11, aces + 1)
         ELSE SumCards(Tail(cards), total + card_values[Head(cards)][1], aces)

\* a valuer that demotes at most one Ace
AdjustAcesOnce(total, aces) ==
    IF total > 21 /\ aces > 0 THEN <<total - 10, aces - 1>> ELSE <<total, aces>>

\* the while loop: demote Aces while the total is over 21
RECURSIVE AdjustAces(_, _)
AdjustAces(total, aces) ==
    IF total > 21 /\ aces > 0 THEN AdjustAces(total - 10, aces - 1)
    ELSE <<total, aces>>

\* <<total, is_soft>>
calculate_hand_value(cards) ==
    LET s == SumCards(cards, 0, 0)
        a == AdjustAces(s[1], s[2])
    IN  <<a[1], a[2] > 0 /\ a[1] <= 21>>

HandTotal(cards) == calculate_hand_value(cards)[1]

\* ------------------------------------------------------------------------
\* get_remaining_cards
\* ------------------------------------------------------------------------
\* a shoe tracker that does not stop at zero
RemoveCardUnclamped(remaining, card) ==
    IF card \in DOMAIN remaining
    THEN [remaining EXCEPT ![card] = @ - 1]
    ELSE remaining

\* lines 116-118: the loop body for one seen card
RemoveCard(remaining, card) ==
    IF card \in DOMAIN remaining /\ remaining[card] > 0
    THEN [remaining EXCEPT ![card] = @ - 1]
    ELSE remaining

\* lines 116-118: the loop over seen[from..to], in list order (the range is
\* halved so that a whole shoe of seen cards is evaluated at a small depth)
RECURSIVE RemoveSeen(_, _, _, _)
RemoveSeen(remaining, seen, from, to) ==
    IF from > to THEN remaining
    ELSE IF from = to THEN RemoveCard(remaining, seen[from])
    ELSE LET mid == (from + to) \div 2
         IN  CHOOSE out \in {RemoveSeen(half, seen, mid + 1, to) :
                                half \in {RemoveSeen(remaining, seen, from, mid)}} : TRUE

get_remaining_cards(seen) ==
    RemoveSeen([card \in DOMAIN standard_deck |-> standard_deck[card] * num_decks],
               seen, 1, Len(seen))

\* ------------------------------------------------------------------------
\* list helpers of the simulators
\* ------------------------------------------------------------------------
RECURSIVE Repeat(_, _)
Repeat(card, count) == IF count <= 0 THEN <<>> ELSE <<card>> \o Repeat(card, count - 1)

\* deck = []; for card, count in d.items(): deck.extend([card] * count)
RECURSIVE FlattenFrom(_, _)
FlattenFrom(d, i) ==
    IF i > Len(RankOrder) THEN <<>>
    ELSE (IF RankOrder[i] \in DOMAIN d THEN Repeat(RankOrder[i], d[RankOrder[i]])
          ELSE <<>>) \o FlattenFrom(d, i + 1)

Flatten(d) == FlattenFrom(d, 1)

\* list.remove(x): drop the first occurrence
RECURSIVE RemoveFirst(_, _)
RemoveFirst(s, x) ==
    IF s = <<>> THEN <<>>
    ELSE IF Head(s) = x THEN Tail(s)
         ELSE <<Head(s)>> \o RemoveFirst(Tail(s), x)

\* dict.get(k, 0)
Get(d, k) == IF k \in DOMAIN d THEN d[k] ELSE 0

\* the sum of d over the keys in S
RECURSIVE SumFrom(_, _, _)
SumFrom(d, S, i) ==
    IF i > Len(RankOrder) THEN 0
    ELSE (IF RankOrder[i] \in S THEN d[RankOrder[i]] ELSE 0) + SumFrom(d, S, i + 1)

SumOver(d, S) == SumFrom(d, S, 1)

\* sum(d.values())
PoolSize(d) == SumOver(d, DOMAIN d)

\* ------------------------------------------------------------------------
\* Inputs of the calls
\* ------------------------------------------------------------------------
Hands == SeqsUpTo(HandRanks, MaxHand)

\* pool mappings with all 13 keys, at most MaxPool cards, all of PoolRanks
Pools ==
    {[r \in Rank |-> IF r \in PoolRanks THEN f[r] ELSE 0] :
        f \in {g \in [PoolRanks -> 0..MaxPool] : SumOver(g, PoolRanks) <= MaxPool}}

\* the seen list of a shoe of which only the cards of pool are left
RECURSIVE SeenAllButFrom(_, _, _)
SeenAllButFrom(pool, decks, i) ==
    IF i > Len(RankOrder) THEN <<>>
    ELSE Repeat(RankOrder[i], 4 * decks - pool[RankOrder[i]])
         \o SeenAllButFrom(pool, decks, i + 1)

SeenAllBut(pool, decks) == SeenAllButFrom(pool, decks, 1)

\* seen lists of the decision calls: nothing seen, or nearly the whole shoe
DecisionSeen == {<<>>} \cup {SeenAllBut(pool, num_decks) : pool \in Pools}

NoResult == [kind |-> "none"]

NoRequest == [kind |-> "none"]

\* ------------------------------------------------------------------------
\* Init: the engine after construction, no call made yet
\* ------------------------------------------------------------------------
\* lines 31-70: the fields __init__ sets besides num_decks, and no call running
Constructed ==
    /\ simulation_rounds \in 1..MaxRounds
    /\ standard_deck = StandardDeckInit
    /\ card_values = CardValuesInit
    /\ op = "none"
    /\ pc = "idle"
    /\ player_cards = <<>>
    /\ dealer_upcard = ""
    /\ seen_cards = <<>>
    /\ true_count = 0
    /\ remaining_cards = <<>>
    /\ actions = <<>>
    /\ expected_values = <<>>
    /\ action = ""
    /\ wins = 0
    /\ total_simulations = 0
    /\ round = 0
    /\ player_hand = <<>>
    /\ deck_copy = <<>>
    /\ deck = <<>>
    /\ bet_multiplier = 1
    /\ net = 0
    /\ dealer_pool = <<>>
    /\ dealer_cards = <<>>
    /\ dealer_deck = <<>>
    /\ dealer_value = 0
    /\ is_soft = FALSE
    /\ draws = 0
    /\ request = NoRequest
    /\ result = NoResult
    /\ limiter_redis = FALSE
    /\ redis_store = <<>>
    /\ requests = [i \in Slots |-> IdleRequest]

Init ==
    /\ num_decks \in 1..MaxDecks
    /\ Constructed

\* line 39: __init__ stores whatever deck count it is given
ShoeDecks == {-1, 0, 1}

InitShoe ==
    /\ num_decks \in ShoeDecks
    /\ Constructed

\* locals of a function that is not (yet) running
ClearEv == actions' = <<>> /\ expected_values' = <<>>

ClearAction == action' = "" /\ wins' = 0 /\ total_simulations' = 0 /\ round' = 0

ClearTrial ==
    /\ player_hand' = <<>>
    /\ deck_copy' = <<>>
    /\ deck' = <<>>
    /\ bet_multiplier' = 1
    /\ net' = 0

ClearDealer ==
    /\ dealer_pool' = <<>>
    /\ dealer_cards' = <<>>
    /\ dealer_deck' = <<>>
    /\ dealer_value' = 0
    /\ is_soft' = FALSE

CanCall == pc = "idle"

\* the caller takes the result; nothing of the call is kept
Return ==
    /\ pc = "done"
    /\ pc' = "idle"
    /\ op' = "none"
    /\ player_cards' = <<>>
    /\ dealer_upcard' = ""
    /\ seen_cards' = <<>>
    /\ true_count' = 0
    /\ remaining_cards' = <<>>
    /\ ClearEv /\ ClearAction /\ ClearTrial /\ ClearDealer
    /\ draws' = 0
    /\ result' = NoResult
    /\ UNCHANGED engineVars
    /\ request' = NoRequest
    /\ UNCHANGED rateVars

\* ------------------------------------------------------------------------
\* calculate_hand_value and get_remaining_cards called on their own
\* ------------------------------------------------------------------------
CallHandValue(cards) ==
    /\ CanCall
    /\ op' = "value"
    /\ player_cards' = cards
    /\ dealer_upcard' = ""
    /\ seen_cards' = <<>>
    /\ true_count' = 0
    /\ remaining_cards' = <<>>
    /\ ClearEv /\ ClearAction /\ ClearTrial /\ ClearDealer
    /\ draws' = 0
    /\ result' = [kind |-> "value", total |-> calculate_hand_value(cards)[1],
                  is_soft |-> calculate_hand_value(cards)[2]]
    /\ pc' = "done"
    /\ UNCHANGED engineVars
    /\ UNCHANGED <<request, rateVars>>

CallRemaining(seen) ==
    /\ CanCall
    /\ op' = "remaining"
    /\ player_cards' = <<>>
    /\ dealer_upcard' = ""
    /\ seen_cards' = seen
    /\ true_count' = 0
    /\ remaining_cards' = <<>>
    /\ ClearEv /\ ClearAction /\ ClearTrial /\ ClearDealer
    /\ draws' = 0
    /\ result' = [kind |-> "remaining", remaining |-> get_remaining_cards(seen)]
    /\ pc' = "done"
    /\ UNCHANGED engineVars
    /\ UNCHANGED <<request, rateVars>>

\* ------------------------------------------------------------------------
\* get_optimal_decision, up to the loop of calculate_expected_values
\* ------------------------------------------------------------------------
\* legal actions that offer the double on any hand of two or more cards
LegalActionsAnyLength(cards) ==
    LET base == <<"hit", "stand">>
        dbl == IF Len(cards) >= 2 THEN Append(base, "double") ELSE base
        spl == IF /\ Len(cards) = 2
                  /\ card_values[cards[1]][1] = card_values[cards[2]][1]
               THEN Append(dbl, "split") ELSE dbl
    IN  IF HandTotal(cards) = 21 THEN <<"stand">> ELSE spl

\* lines 291-308: the legal actions, in insertion order
LegalActions(cards) ==
    LET base == <<"hit", "stand">>
        dbl == IF Len(cards) = 2 THEN Append(base, "double") ELSE base
        spl == IF /\ Len(cards) = 2
                  /\ card_values[cards[1]][1] = card_values[cards[2]][1]
               THEN Append(dbl, "split") ELSE dbl
    IN  IF HandTotal(cards) = 21 THEN <<"stand">> ELSE spl

\* a bust test that lets a total of 22 through
IsBustOver22(cards) == HandTotal(cards) > 22

\* line 311: don't hit if already busted
IsBust(cards) == HandTotal(cards) > 21

CallDecision(cards, upcard, seen, tc) ==
    /\ CanCall
    /\ op' = "decide"
    /\ player_cards' = cards
    /\ dealer_upcard' = upcard
    /\ seen_cards' = seen
    /\ true_count' = tc
    /\ remaining_cards' = get_remaining_cards(seen)
    /\ ClearAction /\ ClearTrial /\ ClearDealer
    /\ draws' = 0
    /\ result' = NoResult
    /\ IF IsBust(cards)
       THEN /\ actions' = <<"stand">>
            /\ expected_values' = << <<"stand", -EvScale>> >>
            /\ pc' = "ev_done"
       ELSE /\ actions' = LegalActions(cards)
            /\ expected_values' = <<>>
            /\ pc' = "actions"
    /\ UNCHANGED engineVars
    /\ UNCHANGED <<request, rateVars>>

\* for action in actions: ev = self.simulate_player_action(...)
\* (a pool of more than `limit` cards is not simulated)
BeginActionWithin(limit) ==
    /\ pc = "actions"
    /\ Len(expected_values) < Len(actions)
    /\ PoolSize(remaining_cards) <= limit
    /\ action' = actions[Len(expected_values) + 1]
    /\ wins' = 0
    /\ total_simulations' = 0
    /\ round' = 0
    /\ ClearTrial /\ ClearDealer
    /\ pc' = "trial"
    /\ UNCHANGED <<engineVars, op, argVars, remaining_cards, evVars, draws, result>>
    /\ UNCHANGED <<request, rateVars>>

BeginAction == BeginActionWithin(MaxPool)

EndActions ==
    /\ pc = "actions"
    /\ Len(expected_values) = Len(actions)
    /\ pc' = "ev_done"
    /\ UNCHANGED <<engineVars, op, argVars, remaining_cards, evVars, actionVars,
                   trialVars, dealerVars, draws, result>>
    /\ UNCHANGED <<request, rateVars>>

\* ------------------------------------------------------------------------
\* simulate_dealer_hand
\* ------------------------------------------------------------------------
\* a dealer that stands on soft 17
DealerHitsHardOnly(value, soft) == value < 17

\* line 147: the dealer hits below 17 and on soft 17
DealerHits(value, soft) == value < 17 \/ (value = 17 /\ soft)

\* where simulate_dealer_hand returns to
DealerReturn ==
    IF op = "dealer"
    THEN /\ pc' = "done"
         /\ result' = [kind |-> "dealer", value |-> dealer_value']
    ELSE /\ pc' = "outcome"
         /\ result' = result

\* lines 135-144: entry of simulate_dealer_hand(upcard, pool)
DealerEntry(upcard, pool) ==
    /\ dealer_pool' = pool
    /\ dealer_cards' = <<upcard>>
    /\ dealer_value' = calculate_hand_value(<<upcard>>)[1]
    /\ is_soft' = calculate_hand_value(<<upcard>>)[2]
    /\ dealer_deck' = Flatten(pool)
    /\ IF Flatten(pool) = <<>> THEN DealerReturn
       ELSE pc' = "dealer" /\ result' = result

CallDealer(upcard, pool) ==
    /\ CanCall
    /\ op' = "dealer"
    /\ player_cards' = <<>>
    /\ dealer_upcard' = upcard
    /\ seen_cards' = <<>>
    /\ true_count' = 0
    /\ remaining_cards' = pool
    /\ ClearEv /\ ClearAction /\ ClearTrial
    /\ draws' = 0
    /\ dealer_pool' = pool
    /\ dealer_cards' = <<upcard>>
    /\ dealer_value' = calculate_hand_value(<<upcard>>)[1]
    /\ is_soft' = calculate_hand_value(<<upcard>>)[2]
    /\ dealer_deck' = Flatten(pool)
    /\ IF Flatten(pool) = <<>>
       THEN /\ pc' = "done"
            /\ result' = [kind |-> "dealer", value |-> dealer_value']
       ELSE /\ pc' = "dealer"
            /\ result' = NoResult
    /\ UNCHANGED engineVars
    /\ UNCHANGED <<request, rateVars>>

\* lines 147-149, 159: the loop ends, the value is returned
DealerStop ==
    /\ pc = "dealer"
    /\ ~DealerHits(dealer_value, is_soft) \/ dealer_deck = <<>>
    /\ UNCHANGED dealerVars
    /\ DealerReturn
    /\ UNCHANGED <<engineVars, op, argVars, remaining_cards, evVars, actionVars,
                   trialVars, draws>>
    /\ UNCHANGED <<request, rateVars>>

\* an iteration that leaves the drawn card in the deck
DealerDrawKeep(i) ==
    /\ pc = "dealer"
    /\ DealerHits(dealer_value, is_soft)
    /\ dealer_deck # <<>>
    /\ i \in 1..Len(dealer_deck)
    /\ LET next_card == dealer_deck[i]
           cards == Append(dealer_cards, next_card)
       IN  /\ dealer_deck' = dealer_deck
           /\ dealer_cards' = cards
           /\ dealer_value' = calculate_hand_value(cards)[1]
           /\ is_soft' = calculate_hand_value(cards)[2]
           /\ IF calculate_hand_value(cards)[1] > 21
              THEN DealerReturn
              ELSE pc' = "dealer" /\ result' = result
    /\ draws' = draws + 1
    /\ UNCHANGED <<engineVars, op, argVars, remaining_cards, evVars, actionVars,
                   trialVars, dealer_pool>>
    /\ UNCHANGED <<request, rateVars>>

\* lines 151-157: one iteration, next_card = deck[i]
DealerDraw(i) ==
    /\ pc = "dealer"
    /\ DealerHits(dealer_value, is_soft)
    /\ dealer_deck # <<>>
    /\ i \in 1..Len(dealer_deck)
    /\ LET next_card == dealer_deck[i]
           cards == Append(dealer_cards, next_card)
       IN  /\ dealer_deck' = RemoveFirst(dealer_deck, next_card)
           /\ dealer_cards' = cards
           /\ dealer_value' = calculate_hand_value(cards)[1]
           /\ is_soft' = calculate_hand_value(cards)[2]
           /\ IF calculate_hand_value(cards)[1] > 21
              THEN DealerReturn
              ELSE pc' = "dealer" /\ result' = result
    /\ draws' = draws + 1
    /\ UNCHANGED <<engineVars, op, argVars, remaining_cards, evVars, actionVars,
                   trialVars, dealer_pool>>
    /\ UNCHANGED <<request, rateVars>>

\* ------------------------------------------------------------------------
\* simulate_player_action
\* ------------------------------------------------------------------------
CallAction(cards, act, upcard, pool) ==
    /\ CanCall
    /\ op' = "action"
    /\ player_cards' = cards
    /\ dealer_upcard' = upcard
    /\ seen_cards' = <<>>
    /\ true_count' = 0
    /\ remaining_cards' = pool
    /\ ClearEv /\ ClearTrial /\ ClearDealer
    /\ action' = act
    /\ wins' = 0
    /\ total_simulations' = 0
    /\ round' = 0
    /\ draws' = 0
    /\ result' = NoResult
    /\ pc' = "trial"
    /\ UNCHANGED engineVars
    /\ UNCHANGED <<request, rateVars>>

\* lines 183-196: a loop iteration starts from copies of the hand and the pool
BeginTrial ==
    /\ pc = "trial"
    /\ round < simulation_rounds
    /\ round' = round + 1
    /\ player_hand' = player_cards
    /\ deck_copy' = remaining_cards
    /\ deck' = Flatten(remaining_cards)
    /\ bet_multiplier' = 1
    /\ net' = 0
    /\ ClearDealer
    /\ pc' = IF Flatten(remaining_cards) = <<>> THEN "trial"
             ELSE CASE action = "hit" -> "hit"
                    [] action = "double" -> "double"
                    [] action = "split" -> "split"
                    [] OTHER -> "evaluate"
    /\ UNCHANGED <<engineVars, op, argVars, remaining_cards, evVars, action, wins,
                   total_simulations, draws, result>>
    /\ UNCHANGED <<request, rateVars>>

\* lines 202-207: the hit loop ends without a draw
HitBreak ==
    /\ pc = "hit"
    /\ HandTotal(player_hand) >= 21 \/ deck = <<>>
    /\ pc' = "evaluate"
    /\ UNCHANGED <<engineVars, op, argVars, remaining_cards, evVars, actionVars,
                   trialVars, dealerVars, draws, result>>
    /\ UNCHANGED <<request, rateVars>>

\* a hit loop that appends to the caller's list (no .copy())
HitDrawShared(i) ==
    /\ pc = "hit"
    /\ HandTotal(player_hand) < 21
    /\ deck # <<>>
    /\ i \in 1..Len(deck)
    /\ deck' = RemoveFirst(deck, deck[i])
    /\ player_hand' = Append(player_hand, deck[i])
    /\ player_cards' = Append(player_cards, deck[i])
    /\ pc' = IF HandTotal(player_hand) >= 17 THEN "evaluate" ELSE "hit"
    /\ draws' = draws + 1
    /\ UNCHANGED <<engineVars, op, dealer_upcard, seen_cards, true_count,
                   remaining_cards, evVars, actionVars, deck_copy, bet_multiplier,
                   net, dealerVars, result>>
    /\ UNCHANGED <<request, rateVars>>

\* lines 202-215: one iteration of the hit loop, next_card = deck[i]
HitDraw(i) ==
    /\ pc = "hit"
    /\ HandTotal(player_hand) < 21
    /\ deck # <<>>
    /\ i \in 1..Len(deck)
    /\ deck' = RemoveFirst(deck, deck[i])
    /\ player_hand' = Append(player_hand, deck[i])
    /\ pc' = IF HandTotal(player_hand) >= 17 THEN "evaluate" ELSE "hit"
    /\ draws' = draws + 1
    /\ UNCHANGED <<engineVars, op, argVars, remaining_cards, evVars, actionVars,
                   deck_copy, bet_multiplier, net, dealerVars, result>>
    /\ UNCHANGED <<request, rateVars>>

\* lines 217-222: double draws exactly one card
DoubleDraw(i) ==
    /\ pc = "double"
    /\ i \in 1..Len(deck)
    /\ deck' = RemoveFirst(deck, deck[i])
    /\ player_hand' = Append(player_hand, deck[i])
    /\ bet_multiplier' = 2
    /\ pc' = "evaluate"
    /\ draws' = draws + 1
    /\ UNCHANGED <<engineVars, op, argVars, remaining_cards, evVars, actionVars,
                   deck_copy, net, dealerVars, result>>
    /\ UNCHANGED <<request, rateVars>>

\* line 226: the split is played only for two cards of the same rank
SplitPlayed(cards) == Len(cards) = 2 /\ cards[1] = cards[2]

\* lines 224-231, a pair: one card of the pair plus next_card = deck[i]
SplitDraw(i) ==
    /\ pc = "split"
    /\ SplitPlayed(player_cards)
    /\ i \in 1..Len(deck)
    /\ deck' = RemoveFirst(deck, deck[i])
    /\ player_hand' = <<player_cards[1], deck[i]>>
    /\ pc' = "evaluate"
    /\ draws' = draws + 1
    /\ UNCHANGED <<engineVars, op, argVars, remaining_cards, evVars, actionVars,
                   deck_copy, bet_multiplier, net, dealerVars, result>>
    /\ UNCHANGED <<request, rateVars>>

\* lines 224-226, not a pair: the hand is left as it is
SplitSkip ==
    /\ pc = "split"
    /\ ~SplitPlayed(player_cards)
    /\ pc' = "evaluate"
    /\ UNCHANGED <<engineVars, op, argVars, remaining_cards, evVars, actionVars,
                   trialVars, dealerVars, draws, result>>
    /\ UNCHANGED <<request, rateVars>>

\* lines 245-249: the pool handed to the dealer
DealerPoolOf(copy, cards, remaining) ==
    LET keys == {k \in DOMAIN copy : k \in Range(cards) \/ copy[k] > Get(remaining, k)}
    IN  [k \in keys |-> copy[k]]

\* lines 233-240: the player busts
PlayerBusts ==
    /\ pc = "evaluate"
    /\ HandTotal(player_hand) > 21
    /\ net' = -bet_multiplier
    /\ wins' = wins - bet_multiplier
    /\ total_simulations' = total_simulations + 1
    /\ pc' = "settled"
    /\ UNCHANGED <<engineVars, op, argVars, remaining_cards, evVars, action, round,
                   player_hand, deck_copy, deck, bet_multiplier, dealerVars, draws,
                   result>>
    /\ UNCHANGED <<request, rateVars>>

\* lines 233-250: the player stands at 21 or less, the dealer plays
PlayDealer ==
    /\ pc = "evaluate"
    /\ HandTotal(player_hand) <= 21
    /\ DealerEntry(dealer_upcard, DealerPoolOf(deck_copy, deck, remaining_cards))
    /\ UNCHANGED <<engineVars, op, argVars, remaining_cards, evVars, actionVars,
                   trialVars, draws>>
    /\ UNCHANGED <<request, rateVars>>

\* an outcome that counts a push as a loss
OutcomePushLoses(player_value, dealer_total, multiplier) ==
    IF dealer_total > 21 THEN multiplier
    ELSE IF player_value > dealer_total THEN multiplier
    ELSE -multiplier

\* lines 252-258: the net return of a trial the dealer played
Outcome(player_value, dealer_total, multiplier) ==
    IF dealer_total > 21 THEN multiplier
    ELSE IF player_value > dealer_total THEN multiplier
    ELSE IF player_value < dealer_total THEN -multiplier
    ELSE 0

\* lines 252-261
DetermineOutcome ==
    /\ pc = "outcome"
    /\ net' = Outcome(HandTotal(player_hand), dealer_value, bet_multiplier)
    /\ wins' = wins + Outcome(HandTotal(player_hand), dealer_value, bet_multiplier)
    /\ total_simulations' = total_simulations + 1
    /\ pc' = "settled"
    /\ UNCHANGED <<engineVars, op, argVars, remaining_cards, evVars, action, round,
                   player_hand, deck_copy, deck, bet_multiplier, dealerVars, draws,
                   result>>
    /\ UNCHANGED <<request, rateVars>>

\* line 183: back to the head of the loop
NextTrial ==
    /\ pc = "settled"
    /\ pc' = "trial"
    /\ UNCHANGED <<engineVars, op, argVars, remaining_cards, evVars, actionVars,
                   trialVars, dealerVars, draws, result>>
    /\ UNCHANGED <<request, rateVars>>

\* line 267: wins / max(total_simulations, 1), in 1/EvScale units
AverageReturn(w, n) == (w * EvScale) \div Max2(n, 1)

\* lines 321-323: ev += true_count * 0.005
CountAdjustment(tc) == tc * (EvScale \div 200)

\* a loop end that leaves the EV of stand without the count adjustment
EndTrialsStandUnadjusted ==
    /\ pc = "trial"
    /\ round = simulation_rounds
    /\ IF op = "action"
       THEN /\ result' = [kind |-> "action",
                          value |-> AverageReturn(wins, total_simulations)]
            /\ pc' = "done"
            /\ UNCHANGED expected_values
       ELSE /\ expected_values' =
                 Append(expected_values,
                        <<action, AverageReturn(wins, total_simulations)
                                  + (IF action = "stand" THEN 0
                                     ELSE CountAdjustment(true_count))>>)
            /\ pc' = "actions"
            /\ UNCHANGED result
    /\ UNCHANGED <<engineVars, op, argVars, remaining_cards, actions, actionVars,
                   trialVars, dealerVars, draws>>
    /\ UNCHANGED <<request, rateVars>>

\* line 267 and lines 317-325: the loop is over, the average is returned
EndTrials ==
    /\ pc = "trial"
    /\ round = simulation_rounds
    /\ IF op = "action"
       THEN /\ result' = [kind |-> "action",
                          value |-> AverageReturn(wins, total_simulations)]
            /\ pc' = "done"
            /\ UNCHANGED expected_values
       ELSE /\ expected_values' =
                 Append(expected_values,
                        <<action, AverageReturn(wins, total_simulations)
                                  + CountAdjustment(true_count)>>)
            /\ pc' = "actions"
            /\ UNCHANGED result
    /\ UNCHANGED <<engineVars, op, argVars, remaining_cards, actions, actionVars,
                   trialVars, dealerVars, draws>>
    /\ UNCHANGED <<request, rateVars>>

\* ------------------------------------------------------------------------
\* get_optimal_decision
\* ------------------------------------------------------------------------
\* a maximum that keeps the last of equal items
RECURSIVE MaxItemFromLast(_, _, _)
MaxItemFromLast(items, i, best) ==
    IF i > Len(items) THEN best
    ELSE MaxItemFromLast(items, i + 1,
                         IF items[i][2] >= best[2] THEN items[i] ELSE best)

\* line 354: max(expected_values.items(), key=...) keeps the first maximum
RECURSIVE MaxItemFrom(_, _, _)
MaxItemFrom(items, i, best) ==
    IF i > Len(items) THEN best
    ELSE MaxItemFrom(items, i + 1, IF items[i][2] > best[2] THEN items[i] ELSE best)

\* the first action of the map paired with the greatest EV
MaxItemFirstKey(items) == <<items[1][1], MaxItemFrom(items, 2, items[1])[2]>>

MaxItem(items) == MaxItemFrom(items, 2, items[1])

Keys(items) == {items[i][1] : i \in 1..Len(items)}

RECURSIVE MaxOfSeq(_, _)
MaxOfSeq(s, default) ==
    IF s = <<>> THEN default
    ELSE LET m == MaxOfSeq(Tail(s), Head(s)) IN Max2(Head(s), m)

Abs(x) == IF x < 0 THEN -x ELSE x

\* the confidence with 0 as the default of max()
ConfidenceDefaultZero(items, optimal) ==
    LET others == SelectSeq(items, LAMBDA it : it[1] # optimal[1])
        evs == [i \in 1..Len(others) |-> others[i][2]]
    IN  Abs(optimal[2] - MaxOfSeq(evs, 0))

\* lines 385-395
Confidence(items, optimal) ==
    LET others == SelectSeq(items, LAMBDA it : it[1] # optimal[1])
        evs == [i \in 1..Len(others) |-> others[i][2]]
    IN  Abs(optimal[2] - MaxOfSeq(evs, optimal[2]))

\* lines 367-374: <<bust_cards, max(total_remaining, 1)>>
BustProbability(items, player_value, remaining) ==
    IF "hit" \in Keys(items)
    THEN LET busting == {c \in DOMAIN remaining :
                            player_value + card_values[c][1] > 21}
         IN  <<SumOver(remaining, busting), Max2(PoolSize(remaining), 1)>>
    ELSE <<0, 1>>

\* lines 354-404
Decide ==
    /\ pc = "ev_done"
    /\ LET optimal_action == MaxItem(expected_values)
           hv == calculate_hand_value(player_cards)
       IN  result' =
             [kind |-> "decision",
              action |-> optimal_action[1],
              expected_value |-> optimal_action[2],
              all_expected_values |-> expected_values,
              player_value |-> hv[1],
              is_soft |-> hv[2],
              dealer_upcard_value |-> IF dealer_upcard # "A"
                                      THEN card_values[dealer_upcard][1] ELSE 11,
              bust_probability |->
                  BustProbability(expected_values, hv[1],
                                  get_remaining_cards(seen_cards)),
              true_count |-> true_count,
              confidence |-> Confidence(expected_values, optimal_action)]
    /\ pc' = "done"
    /\ UNCHANGED <<engineVars, op, argVars, remaining_cards, evVars, actionVars,
                   trialVars, dealerVars, draws>>
    /\ UNCHANGED <<request, rateVars>>

\* ------------------------------------------------------------------------
\* Calls of the counting and bankroll functions: no engine call is running
\* ------------------------------------------------------------------------
NoEngineCall ==
    /\ player_cards' = <<>>
    /\ dealer_upcard' = ""
    /\ seen_cards' = <<>>
    /\ true_count' = 0
    /\ remaining_cards' = <<>>
    /\ ClearEv /\ ClearAction /\ ClearTrial /\ ClearDealer
    /\ draws' = 0
    /\ UNCHANGED engineVars
    /\ UNCHANGED rateVars

\* a function of the ranks, given in the order of RankOrder
Table(values) == [r \in Rank |-> values[CHOOSE i \in 1..Len(RankOrder) : RankOrder[i] = r]]

\* ------------------------------------------------------------------------
\* utils/counting_systems.py
\* ------------------------------------------------------------------------
\*                A  2  3  4  5  6  7  8  9 10  J  Q  K
COUNTING_SYSTEMS ==
    [hiLo     |-> Table(<<-1, 1, 1, 1, 1, 1, 0, 0, 0, -1, -1, -1, -1>>),
     hiOptI   |-> Table(<<0, 0, 1, 1, 1, 1, 1, 0, 0, -1, -1, -1, -1>>),
     hiOptII  |-> Table(<<0, 1, 1, 2, 2, 2, 1, 0, -1, -2, -2, -2, -2>>),
     ko       |-> Table(<<-1, 1, 1, 1, 1, 1, 1, 0, 0, -1, -1, -1, -1>>),
     omegaII  |-> Table(<<0, 1, 1, 2, 2, 2, 1, 0, -1, -2, -2, -2, -2>>),
     zenCount |-> Table(<<-1, 1, 1, 2, 2, 2, 1, 0, -1, -2, -2, -2, -2>>)]

TagOfUnknownHigh(system, card) == IF card \in DOMAIN system THEN system[card] ELSE -1

\* system.get(card, 0)
TagOf(system, card) == IF card \in DOMAIN system THEN system[card] ELSE 0

RECURSIVE SumTags(_, _, _)
SumTags(system, cards, i) ==
    IF i > Len(cards) THEN 0
    ELSE TagOf(system, cards[i]) + SumTags(system, cards, i + 1)

\* get_counting_system raises ValueError for a name that is not in the catalog
KnownSystem(system_name) == system_name \in DOMAIN COUNTING_SYSTEMS

calculate_running_count(cards, system_name) ==
    IF KnownSystem(system_name)
    THEN [kind |-> "count", value |-> SumTags(COUNTING_SYSTEMS[system_name], cards, 1)]
    ELSE [kind |-> "error", error |-> "ValueError"]

CallRunningCount(cards, system_name) ==
    /\ CanCall
    /\ op' = "running_count"
    /\ request' = [kind |-> "running_count", cards |-> cards, system |-> system_name]
    /\ result' = calculate_running_count(cards, system_name)
    /\ pc' = "done"
    /\ NoEngineCall

\* ------------------------------------------------------------------------
\* server.py: calculate_running_count over the low / neutral / high tables.
\* Its tags have halves ("halves" system): counts are in units of 1/2.
\* ------------------------------------------------------------------------
ServerSystems ==
    [hiLo |->
       [low |-> ("2" :> 2 @@ "3" :> 2 @@ "4" :> 2 @@ "5" :> 2 @@ "6" :> 2),
        neutral |-> ("7" :> 0 @@ "8" :> 0 @@ "9" :> 0),
        high |-> ("10" :> -2 @@ "J" :> -2 @@ "Q" :> -2 @@ "K" :> -2 @@ "A" :> -2)],
     hiOpt2 |->
       [low |-> ("2" :> 2 @@ "3" :> 2 @@ "4" :> 4 @@ "5" :> 4 @@ "6" :> 2 @@ "7" :> 2),
        neutral |-> ("7" :> 2 @@ "8" :> 0 @@ "9" :> 0),
        high |-> ("10" :> -4 @@ "J" :> -4 @@ "Q" :> -4 @@ "K" :> -4 @@ "A" :> 0)],
     ko |->
       [low |-> ("2" :> 2 @@ "3" :> 2 @@ "4" :> 2 @@ "5" :> 2 @@ "6" :> 2 @@ "7" :> 2),
        neutral |-> ("7" :> 2 @@ "8" :> 0 @@ "9" :> 0),
        high |-> ("10" :> -2 @@ "J" :> -2 @@ "Q" :> -2 @@ "K" :> -2 @@ "A" :> -2)],
     halves |->
       [low |-> ("2" :> 1 @@ "3" :> 2 @@ "4" :> 2 @@ "5" :> 3 @@ "6" :> 2 @@ "7" :> 1),
        neutral |-> ("8" :> 0),
        high |-> ("9" :> -1 @@ "10" :> -2 @@ "J" :> -2 @@ "Q" :> -2 @@ "K" :> -2
                  @@ "A" :> -2)],
     zenCount |->
       [low |-> ("2" :> 2 @@ "3" :> 2 @@ "4" :> 4 @@ "5" :> 4 @@ "6" :> 4 @@ "7" :> 2),
        neutral |-> ("8" :> 0 @@ "9" :> 0),
        high |-> ("10" :> -4 @@ "J" :> -4 @@ "Q" :> -4 @@ "K" :> -4 @@ "A" :> -2)]]

\* card.upper()
Upper(card) ==
    CASE card = "a" -> "A"
      [] card = "j" -> "J"
      [] card = "q" -> "Q"
      [] card = "k" -> "K"
      [] card = "x" -> "X"
      [] OTHER -> card

\* if card_upper in low: ... elif card_upper in high: ...
ServerTagOf(system_data, card) ==
    LET card_upper == Upper(card)
    IN  IF card_upper \in DOMAIN system_data.low THEN system_data.low[card_upper]
        ELSE IF card_upper \in DOMAIN system_data.high THEN system_data.high[card_upper]
        ELSE 0

RECURSIVE ServerSumTags(_, _, _)
ServerSumTags(system_data, cards, i) ==
    IF i > Len(cards) THEN 0
    ELSE ServerTagOf(system_data, cards[i]) + ServerSumTags(system_data, cards, i + 1)

\* raise InvalidCountingSystemError(system, list(...)): the class takes one
\* argument, so the raise itself fails with TypeError; an error either way
server_calculate_running_count(cards, system) ==
    IF system \notin DOMAIN ServerSystems
    THEN [kind |-> "error", error |-> "TypeError"]
    ELSE [kind |-> "count", value |-> ServerSumTags(ServerSystems[system], cards, 1)]

CallServerRunningCount(cards, system) ==
    /\ CanCall
    /\ op' = "server_running_count"
    /\ request' = [kind |-> "running_count", cards |-> cards, system |-> system]
    /\ result' = server_calculate_running_count(cards, system)
    /\ pc' = "done"
    /\ NoEngineCall

\* ------------------------------------------------------------------------
\* calculate_true_count. decks_remaining is given in tenths of a deck; a
\* true count is a ratio num / den, or a number of tenths once rounded.
\* ------------------------------------------------------------------------
\* utils/counting_systems.py: 0.0 if decks_remaining <= 0, else the quotient
calculate_true_count(running_count, deck_tenths) ==
    IF deck_tenths <= 0
    THEN [kind |-> "ratio", num |-> 0, den |-> 1]
    ELSE [kind |-> "ratio", num |-> 10 * running_count, den |-> deck_tenths]

CallTrueCount(running_count, deck_tenths) ==
    /\ CanCall
    /\ op' = "true_count"
    /\ request' = [kind |-> "true_count", running_count |-> running_count,
                   deck_tenths |-> deck_tenths]
    /\ result' = calculate_true_count(running_count, deck_tenths)
    /\ pc' = "done"
    /\ NoEngineCall

MIN_TRUE_COUNT == -20

MAX_TRUE_COUNT == 20

\* floor of n / d for d > 0
FloorDiv(n, d) == IF n >= 0 THEN n \div d ELSE -((-n + d - 1) \div d)

\* round(x): the integers nearest to n / d (d > 0). On an exact tie the
\* float being rounded is not the decimal tie, so either neighbour may come out.
RoundChoices(n, d) ==
    LET lo == FloorDiv(n, d)
        twice == 2 * (n - lo * d)
    IN  IF twice < d THEN {lo} ELSE IF twice > d THEN {lo + 1} ELSE {lo, lo + 1}

\* max(MIN_TRUE_COUNT, min(MAX_TRUE_COUNT, n / d)) as a ratio over d (d > 0)
ClampTrueCount(n, d) ==
    IF n > MAX_TRUE_COUNT * d THEN MAX_TRUE_COUNT * d
    ELSE IF n < MIN_TRUE_COUNT * d THEN MIN_TRUE_COUNT * d
    ELSE n

\* server.py: 0.0 if decks_remaining <= 0.5, else the clamped quotient
\* rounded to one decimal; the set of the values round() can give, in tenths
server_calculate_true_count(running_count, deck_tenths) ==
    IF deck_tenths <= 5
    THEN {0}
    ELSE RoundChoices(10 * ClampTrueCount(10 * running_count, deck_tenths), deck_tenths)

CallServerTrueCount(running_count, deck_tenths) ==
    /\ CanCall
    /\ op' = "server_true_count"
    /\ request' = [kind |-> "true_count", running_count |-> running_count,
                   deck_tenths |-> deck_tenths]
    /\ \E tenths \in server_calculate_true_count(running_count, deck_tenths) :
          result' = [kind |-> "true_count", tenths |-> tenths]
    /\ pc' = "done"
    /\ NoEngineCall

\* ------------------------------------------------------------------------
\* utils/validation.py: validate_counting_system against constants.py
\* ------------------------------------------------------------------------
\* constants.py lines 12-21: the keys of VALID_COUNTING_SYSTEMS
VALID_COUNTING_SYSTEMS ==
    {"hilo", "hiopt1", "hiopt2", "ko", "omega2", "zen", "halves", "red7"}

\* str.strip() on the names considered
Strip(name) ==
    CASE name = " hiLo " -> "hiLo"
      [] name = " ko" -> "ko"
      [] name = "  " -> ""
      [] OTHER -> name

\* str.lower() on the names considered
Lower(name) ==
    CASE name = "hiLo" -> "hilo"
      [] name = "HILO" -> "hilo"
      [] name = "hiOptI" -> "hiopti"
      [] name = "hiOptII" -> "hioptii"
      [] name = "hiOpt2" -> "hiopt2"
      [] name = "KO" -> "ko"
      [] name = "omegaII" -> "omegaii"
      [] name = "zenCount" -> "zencount"
      [] OTHER -> name

\* lines 191-233 (system is a string): the normalized name, or the error
validate_counting_system(system) ==
    LET system_str == Lower(Strip(system))
    IN  IF system_str = "" \/ system_str \notin VALID_COUNTING_SYSTEMS
        THEN [kind |-> "error", error |-> "InvalidCountingSystemError"]
        ELSE [kind |-> "system", value |-> system_str]

CallValidateSystem(system) ==
    /\ CanCall
    /\ op' = "validate_system"
    /\ request' = [kind |-> "validate_system", system |-> system]
    /\ result' = validate_counting_system(system)
    /\ pc' = "done"
    /\ NoEngineCall

\* ------------------------------------------------------------------------
\* middleware/rate_limiter.py: rate_limit_middleware over the counters in
\* Redis. The invocations are coroutines: each runs up to its next await
\* (redis.get, pipeline.execute, call_next) in one step, and the steps of
\* different invocations interleave. The requests carry no X-Forwarded-For.
\* ------------------------------------------------------------------------
RATE_LIMITS == [default |-> 60, strategy |-> 30, intensive |-> 10]

PATH_RATE_LIMITS ==
    [p \in {"/api/strategy/recommend", "/api/strategy/basic-strategy",
            "/api/strategy/counting-system", "/api/bankroll/calculate"} |->
        IF p = "/api/bankroll/calculate" THEN "intensive" ELSE "strategy"]

\* line 75
ExemptPaths == {"/api/health", "/docs", "/redoc", "/openapi.json"}

\* PATH_RATE_LIMITS.get(path, "default")
RateLimitType(path) ==
    IF path \in DOMAIN PATH_RATE_LIMITS THEN PATH_RATE_LIMITS[path] ELSE "default"

\* lines 84-85
RateLimitOf(path) == RATE_LIMITS[RateLimitType(path)]

\* lines 43-55: f"rate_limit:{rate_limit_type}:{client_ip}"
get_rate_limit_key(path, host) ==
    <<"rate_limit", RateLimitType(path), IF host = "" THEN "unknown" ELSE host>>

\* redis.get(key)
RedisGet(key) == IF key \in DOMAIN redis_store THEN redis_store[key] ELSE RedisNone

\* the store after pipeline.incr(key); pipeline.expire(key, 60)
RedisIncr(key) ==
    [k \in DOMAIN redis_store \cup {key} |->
        IF k = key THEN (IF key \in DOMAIN redis_store THEN redis_store[key] ELSE 0) + 1
        ELSE redis_store[k]]

\* line 93: current and int(current) >= rate_limit
LimitReached(current, rate_limit) == current # RedisNone /\ current >= rate_limit

\* main.py line 104: FastAPILimiter.init(redis_connection)
LimiterStartup ==
    /\ ~limiter_redis
    /\ limiter_redis' = TRUE
    /\ UNCHANGED <<redis_store, requests, coreVars>>

\* lines 75-91: a request arrives; an exempt path, or no Redis, goes straight
\* to call_next; otherwise the counter is read
RateReceive(i, path, host) ==
    /\ requests[i].pc = "idle"
    /\ requests' =
         [requests EXCEPT ![i] =
            IF path \in ExemptPaths \/ ~limiter_redis
            THEN [pc |-> "passed", path |-> path, host |-> host,
                  current |-> RedisNone, status |-> 0, remaining |-> 0]
            ELSE [pc |-> "checked", path |-> path, host |-> host,
                  current |-> RedisGet(get_rate_limit_key(path, host)),
                  status |-> 0, remaining |-> 0]]
    /\ UNCHANGED <<limiter_redis, redis_store, coreVars>>

\* lines 93-114: the limit is reached, the answer is 429
RateReject(i) ==
    /\ requests[i].pc = "checked"
    /\ LimitReached(requests[i].current, RateLimitOf(requests[i].path))
    /\ requests' = [requests EXCEPT ![i].pc = "responded", ![i].status = 429]
    /\ UNCHANGED <<limiter_redis, redis_store, coreVars>>

\* lines 116-124: the counter is incremented, its expiry set, call_next begins
RateCount(i) ==
    /\ requests[i].pc = "checked"
    /\ ~LimitReached(requests[i].current, RateLimitOf(requests[i].path))
    /\ redis_store' =
         RedisIncr(get_rate_limit_key(requests[i].path, requests[i].host))
    /\ requests' =
         [requests EXCEPT
            ![i].pc = "forwarded",
            ![i].remaining =
                Max2(0, RateLimitOf(requests[i].path)
                        - (Max2(requests[i].current, 0) + 1))]
    /\ UNCHANGED <<limiter_redis, coreVars>>

\* lines 76, 81, 124-130: the handler has answered
RateRespond(i) ==
    /\ requests[i].pc \in {"passed", "forwarded"}
    /\ requests' = [requests EXCEPT ![i].pc = "responded", ![i].status = 200]
    /\ UNCHANGED <<limiter_redis, redis_store, coreVars>>

\* the response is sent, the invocation is over
RateClose(i) ==
    /\ requests[i].pc = "responded"
    /\ requests' = [requests EXCEPT ![i] = IdleRequest]
    /\ UNCHANGED <<limiter_redis, redis_store, coreVars>>

\* line 119: 60 seconds after the last expire() Redis deletes the key
KeyExpires(key) ==
    /\ key \in DOMAIN redis_store
    /\ redis_store' = [k \in DOMAIN redis_store \ {key} |-> redis_store[k]]
    /\ UNCHANGED <<limiter_redis, requests, coreVars>>

\* ------------------------------------------------------------------------
\* Bankroll sizing. Money is in whole currency units, a true count in tenths,
\* an edge in thousandths, a risk tolerance in hundredths; a float that the
\* code computes is the exact ratio num / den (den > 0).
\* ------------------------------------------------------------------------
RECURSIVE GCD(_, _)
GCD(a, b) == IF b = 0 THEN a ELSE GCD(b, a % b)

\* the ratio n / d in lowest terms
Ratio(n, d) ==
    LET g == GCD(Abs(n), d)
    IN  [num |-> n \div g, den |-> d \div g]

ClampRatioFloorOnly(x, lo, hi) ==
    IF x.num < lo * x.den THEN Ratio(lo * x.den, x.den) ELSE x

\* max(lo, min(x, hi)) for a ratio x and whole lo, hi
ClampRatio(x, lo, hi) ==
    LET capped == IF x.num > hi * x.den THEN Ratio(hi * x.den, x.den) ELSE x
    IN  IF capped.num < lo * capped.den THEN Ratio(lo * capped.den, capped.den) ELSE capped

\* round(x, 2), in hundredths
RoundCents(x) == RoundChoices(100 * x.num, x.den)

\* server.py calculate_kelly_bet: VARIANCE = 1.3, in tenths
VarianceTenths == 13

KellyInvalid(bankroll, min_bet, max_bet) ==
    bankroll <= 0 \/ min_bet <= 0 \/ max_bet <= 0 \/ min_bet > max_bet

\* kelly_fraction < bound_thousandths / 1000, for kelly_fraction = edge / 1.3;
\* the quotient is a rounded float, so on exact equality either answer may come
KellyBelow(edge, bound_thousandths) ==
    IF 10 * edge < VarianceTenths * bound_thousandths THEN {TRUE}
    ELSE IF 10 * edge > VarianceTenths * bound_thousandths THEN {FALSE}
    ELSE {TRUE, FALSE}

RiskLevelsTwoTiers(edge) ==
    {IF below10 THEN "low" ELSE "high" : below10 \in KellyBelow(edge, 10)}

RiskLevels(edge) ==
    {IF below10 THEN "low" ELSE IF below30 THEN "medium" ELSE "high" :
        below10 \in KellyBelow(edge, 10), below30 \in KellyBelow(edge, 30)}

\* the set of the records calculate_kelly_bet can return (one, but for the
\* choices of round() and of the comparisons on exact ties)
calculate_kelly_bet(bankroll, tc_tenths, edge, min_bet, max_bet) ==
    IF KellyInvalid(bankroll, min_bet, max_bet)
    THEN {[kind |-> "error", error |-> "ValueError"]}
    ELSE IF edge <= 0 \/ tc_tenths <= 0
    THEN {[kind |-> "kelly", bet |-> Ratio(min_bet, 1), bet_amount |-> 100 * min_bet,
           kelly |-> Ratio(0, 1), conservative |-> Ratio(0, 1),
           kelly_fraction |-> 0, conservative_fraction |-> 0, risk_level |-> "low",
           true_count |-> tc_tenths, edge |-> 10 * edge]}
    ELSE LET kelly == Ratio(10 * edge, 1000 * VarianceTenths)
             conservative_kelly == Ratio(kelly.num, 4 * kelly.den)
             bet == ClampRatio(Ratio(bankroll * conservative_kelly.num,
                                     conservative_kelly.den), min_bet, max_bet)
         IN  {[kind |-> "kelly", bet |-> bet, bet_amount |-> cents,
               kelly |-> kelly, conservative |-> conservative_kelly,
               kelly_fraction |-> k4, conservative_fraction |-> c4,
               risk_level |-> level, true_count |-> tc_tenths, edge |-> 10 * edge] :
                 cents \in RoundCents(bet),
                 k4 \in RoundChoices(10000 * kelly.num, kelly.den),
                 c4 \in RoundChoices(10000 * conservative_kelly.num, conservative_kelly.den),
                 level \in RiskLevels(edge)}

CallKellyBet(bankroll, tc_tenths, edge, min_bet, max_bet) ==
    /\ CanCall
    /\ op' = "kelly_bet"
    /\ request' = [kind |-> "kelly_bet", bankroll |-> bankroll, true_count |-> tc_tenths,
                   edge |-> edge, min_bet |-> min_bet, max_bet |-> max_bet]
    /\ result' \in calculate_kelly_bet(bankroll, tc_tenths, edge, min_bet, max_bet)
    /\ pc' = "done"
    /\ NoEngineCall

\* ------------------------------------------------------------------------
\* models/schemas.py BankrollRequest (server_fixed.py declares the same
\* fields and validator): field constraints, then the max_bet validator,
\* which sees min_bet only if min_bet itself was valid
\* ------------------------------------------------------------------------
validate_max_bet_unchecked(data) == data.max_bet = data.max_bet

validate_max_bet_greater_than_min(data) ==
    ~(data.min_bet > 0 /\ data.max_bet < data.min_bet)

BankrollRequestValid(data) ==
    /\ data.bankroll > 0
    /\ data.risk_tolerance > 0 /\ data.risk_tolerance <= 100
    /\ data.min_bet > 0
    /\ data.max_bet > 0
    /\ validate_max_bet_greater_than_min(data)

\* ------------------------------------------------------------------------
\* services/bankroll_service.py
\* ------------------------------------------------------------------------
\* advantage = 0.01 * true_count; kelly_fraction = max(0, min(p - q, 1.0))
\* with p - q = advantage; the bet is bankroll * kelly_fraction
_calculate_kelly_bet(bankroll, tc_tenths) ==
    LET advantage == Ratio(tc_tenths, 1000)
        kelly_fraction == ClampRatio(advantage, 0, 1)
    IN  Ratio(bankroll * kelly_fraction.num, kelly_fraction.den)

\* min(1.0 + true_count * 0.1, 2.0), in hundredths
CountMultiplier(tc_tenths) == IF 100 + tc_tenths < 200 THEN 100 + tc_tenths ELSE 200

_calculate_recommended_bet(bankroll, risk_tolerance, tc_tenths, min_bet, max_bet) ==
    LET recommended == Ratio(bankroll * risk_tolerance * CountMultiplier(tc_tenths), 10000)
    IN  ClampRatio(recommended, min_bet, max_bet)

\* the power risk_factor ** bankroll_units is not computed here: only whether
\* the guard returns 1.0 outright
_calculate_risk_of_ruin(bankroll, bet_size) ==
    IF bet_size.num <= 0 \/ bankroll <= 0 THEN "certain" ELSE "power"

\* bet_size * (-0.005 + true_count * 0.005)
_calculate_expected_value(bet_size, tc_tenths) ==
    Ratio(bet_size.num * (tc_tenths - 10), 2000 * bet_size.den)

manage_bankroll(data) ==
    LET kelly_bet == _calculate_kelly_bet(data.bankroll, data.true_count)
        half_kelly_bet == Ratio(kelly_bet.num, 2 * kelly_bet.den)
        recommended == _calculate_recommended_bet(data.bankroll, data.risk_tolerance,
                                                  data.true_count, data.min_bet,
                                                  data.max_bet)
        expected == _calculate_expected_value(recommended, data.true_count)
    IN  {[kind |-> "bankroll", bet |-> recommended, recommended_bet |-> rec,
          risk_of_ruin |-> _calculate_risk_of_ruin(data.bankroll, recommended),
          expected_value |-> ev, kelly_bet |-> kb, half_kelly_bet |-> hkb] :
            rec \in RoundCents(recommended), ev \in RoundCents(expected),
            kb \in RoundCents(kelly_bet), hkb \in RoundCents(half_kelly_bet)}

\* routes/bankroll.py POST /calculate: the schema, then manage_bankroll
PostBankrollCalculate(data) ==
    /\ CanCall
    /\ op' = "bankroll_calculate"
    /\ request' = [kind |-> "bankroll"] @@ data
    /\ IF BankrollRequestValid(data)
       THEN result' \in manage_bankroll(data)
       ELSE result' = [kind |-> "rejected"]
    /\ pc' = "done"
    /\ NoEngineCall

\* ------------------------------------------------------------------------
\* server_fixed.py POST /bankroll
\* ------------------------------------------------------------------------
fixed_manage_bankroll(data) ==
    LET kelly_bet == Ratio(data.bankroll * data.true_count, 2000)
        half_kelly_bet == Ratio(kelly_bet.num, 2 * kelly_bet.den)
        recommended == ClampRatio(Ratio(half_kelly_bet.num * data.bankroll,
                                        half_kelly_bet.den),
                                  data.min_bet, data.max_bet)
        \* recommended_bet * (0.5 + true_count * 0.005)
        expected == Ratio(recommended.num * (1000 + data.true_count),
                          2000 * recommended.den)
    IN  {[kind |-> "bankroll", bet |-> recommended, recommended_bet |-> rec,
          risk_of_ruin |-> "power",
          expected_value |-> ev, kelly_bet |-> kb, half_kelly_bet |-> hkb] :
            rec \in RoundCents(recommended), ev \in RoundCents(expected),
            kb \in RoundCents(kelly_bet), hkb \in RoundCents(half_kelly_bet)}

PostFixedBankroll(data) ==
    /\ CanCall
    /\ op' = "fixed_bankroll"
    /\ request' = [kind |-> "bankroll"] @@ data
    /\ IF BankrollRequestValid(data)
       THEN result' \in fixed_manage_bankroll(data)
       ELSE result' = [kind |-> "rejected"]
    /\ pc' = "done"
    /\ NoEngineCall

\* ------------------------------------------------------------------------
\* The caller and the specification
\* ------------------------------------------------------------------------
CallHandValueAny ==
    /\ CanCall
    /\ \E cards \in SeqsUpTo(Rank, MaxValueHand) : CallHandValue(cards)

CallRemainingAny ==
    /\ CanCall
    /\ \E seen \in SeqsUpTo(SeenRanks, MaxSeen) : CallRemaining(seen)

CallDecisionAny ==
    /\ CanCall
    /\ \E cards \in Hands, upcard \in UpRanks, seen \in DecisionSeen,
          tc \in TrueCounts :
            CallDecision(cards, upcard, seen, tc)

CallActionAny ==
    /\ CanCall
    /\ \E cards \in Hands, i \in 1..Len(ActionNames), upcard \in UpRanks,
          pool \in Pools :
            CallAction(cards, ActionNames[i], upcard, pool)

CallDealerAny ==
    /\ CanCall
    /\ \E upcard \in Rank, pool \in Pools : CallDealer(upcard, pool)

\* inputs of the counting functions
CountTokens == {"2", "7", "9", "A", "j", "X"}

CountInputs ==
    SeqsUpTo(CountTokens, MaxCountCards)
    \cup {<<"2", "3", "4", "5", "6">>, <<"10", "J", "Q", "K", "A">>, <<"7", "8", "9">>}

CountSystems == DOMAIN COUNTING_SYSTEMS \cup DOMAIN ServerSystems \cup {"unknown"}

RunningCounts == {-50, -3, 0, 2, 3, 7, 50}

DeckTenths == {-10, 0, 3, 5, 6, 8, 10, 30}

CallRunningCountAny ==
    /\ CanCall
    /\ \E cards \in CountInputs, system_name \in CountSystems :
          CallRunningCount(cards, system_name)

CallServerRunningCountAny ==
    /\ CanCall
    /\ \E cards \in CountInputs, system \in CountSystems :
          CallServerRunningCount(cards, system)

CallTrueCountAny ==
    /\ CanCall
    /\ \E running_count \in RunningCounts, deck_tenths \in DeckTenths :
          CallTrueCount(running_count, deck_tenths)

CallServerTrueCountAny ==
    /\ CanCall
    /\ \E running_count \in RunningCounts, deck_tenths \in DeckTenths :
          CallServerTrueCount(running_count, deck_tenths)

SystemNames ==
    DOMAIN COUNTING_SYSTEMS \cup DOMAIN ServerSystems \cup VALID_COUNTING_SYSTEMS
        \cup {" hiLo ", " ko", "  ", "", "HILO", "KO", "unknown"}

CallValidateSystemAny ==
    /\ CanCall
    /\ \E system \in SystemNames : CallValidateSystem(system)

\* inputs of the bankroll functions
Bankrolls == {-50, 0, 100, 1000}

BetLimits == {-5, 0, 5, 25, 500}

TrueCountTenths == {-200, -30, 0, 5, 30, 60}

Edges == {-10, 0, 5, 13, 20, 39, 50}

RiskTolerances == {0, 2, 50, 100, 150}

BankrollRequests ==
    [bankroll : Bankrolls, true_count : TrueCountTenths, risk_tolerance : RiskTolerances,
     min_bet : BetLimits, max_bet : BetLimits]

CallKellyBetAny ==
    /\ CanCall
    /\ \E bankroll \in Bankrolls, tc_tenths \in TrueCountTenths, edge \in Edges,
          min_bet \in BetLimits, max_bet \in BetLimits :
            CallKellyBet(bankroll, tc_tenths, edge, min_bet, max_bet)

PostBankrollCalculateAny ==
    /\ CanCall
    /\ \E data \in BankrollRequests : PostBankrollCalculate(data)

PostFixedBankrollAny ==
    /\ CanCall
    /\ \E data \in BankrollRequests : PostFixedBankroll(data)

Next ==
    \/ CallHandValueAny
    \/ CallRemainingAny
    \/ CallDecisionAny
    \/ CallActionAny
    \/ CallDealerAny
    \/ CallRunningCountAny
    \/ CallServerRunningCountAny
    \/ CallTrueCountAny
    \/ CallServerTrueCountAny
    \/ CallValidateSystemAny
    \/ CallKellyBetAny
    \/ PostBankrollCalculateAny
    \/ PostFixedBankrollAny
    \/ Return
    \/ BeginAction
    \/ EndActions
    \/ Decide
    \/ BeginTrial
    \/ \E i \in 1..MaxPool : HitDraw(i)
    \/ HitBreak
    \/ \E i \in 1..MaxPool : DoubleDraw(i)
    \/ \E i \in 1..MaxPool : SplitDraw(i)
    \/ SplitSkip
    \/ PlayerBusts
    \/ PlayDealer
    \/ \E i \in 1..MaxPool : DealerDraw(i)
    \/ DealerStop
    \/ DetermineOutcome
    \/ NextTrial
    \/ EndTrials

\* the hand valuer and the shoe tracker on their own
NextValue == CallHandValueAny \/ CallRemainingAny \/ Return

\* the dealer simulator on its own
NextDealer ==
    \/ CallDealerAny
    \/ \E i \in 1..MaxPool : DealerDraw(i)
    \/ DealerStop
    \/ Return

\* the counting functions on their own
NextCount ==
    \/ CallRunningCountAny
    \/ CallServerRunningCountAny
    \/ CallTrueCountAny
    \/ CallServerTrueCountAny
    \/ CallValidateSystemAny
    \/ Return

\* the bankroll sizers on their own
NextBankroll ==
    \/ CallKellyBetAny
    \/ PostBankrollCalculateAny
    \/ PostFixedBankrollAny
    \/ Return

\* one decision on the whole shoe: the pair of eights against a ten with no
\* seen card; random.choice is followed for the deck positions of PairDraws only
PairDraws == {17, 37}

CallPairDecision == CallDecision(<<"8", "8">>, "10", <<>>, 0)

NextPair ==
    \/ CallPairDecision
    \/ BeginActionWithin(52 * num_decks)
    \/ EndActions
    \/ Decide
    \/ BeginTrial
    \/ \E i \in PairDraws : HitDraw(i)
    \/ HitBreak
    \/ \E i \in PairDraws : DoubleDraw(i)
    \/ \E i \in PairDraws : SplitDraw(i)
    \/ PlayerBusts
    \/ PlayDealer
    \/ \E i \in PairDraws : DealerDraw(i)
    \/ DealerStop
    \/ DetermineOutcome
    \/ NextTrial
    \/ EndTrials
    \/ Return

Spec == Init /\ [][Next]_vars

SpecPair == Init /\ [][NextPair]_vars

SpecBankroll == Init /\ [][NextBankroll]_vars

SpecCount == Init /\ [][NextCount]_vars

SpecValue == Init /\ [][NextValue]_vars

SpecDealer == Init /\ [][NextDealer]_vars

\* the rate limiter on its own: one client, a limited and an exempt path
RatePaths == {"/api/bankroll/calculate", "/api/health"}

RateHosts == {"10.0.0.1"}

NextRate ==
    \/ LimiterStartup
    \/ \E i \in Slots, path \in RatePaths, host \in RateHosts : RateReceive(i, path, host)
    \/ \E i \in Slots : RateReject(i)
    \/ \E i \in Slots : RateCount(i)
    \/ \E i \in Slots : RateRespond(i)
    \/ \E i \in Slots : RateClose(i)
    \/ \E key \in DOMAIN redis_store : KeyExpires(key)

SpecRate == Init /\ [][NextRate]_vars

\* the shoe tracker of an engine built with any deck count
NextShoe == CallRemainingAny \/ Return

SpecShoe == InitShoe /\ [][NextShoe]_vars

\* the interpreter keeps executing the loop of simulate_dealer_hand
DealerStep == DealerStop \/ \E i \in 1..MaxPool : DealerDraw(i)

SpecDealerLive == Init /\ [][NextDealer]_vars /\ WF_vars(DealerStep)

\* ------------------------------------------------------------------------
\* Reference definitions of the claims (from the rules of the game, not from
\* the engine's tables)
\* ------------------------------------------------------------------------
\* an Ace as 11, a face card as 10, any other rank as its number
RefRankValue(r) ==
    LET i == CHOOSE j \in 1..Len(RankOrder) : RankOrder[j] = r
    IN  IF i = 1 THEN 11 ELSE IF i <= 10 THEN i ELSE 10

RECURSIVE RefRaw(_)
RefRaw(cards) ==
    IF cards = <<>> THEN 0 ELSE RefRankValue(Head(cards)) + RefRaw(Tail(cards))

\* the least number of Aces to count as 1 to get to 21 or less (all, if none does)
RefDemotions(cards) ==
    LET aces == Occurrences(cards, "A")
        ok == {k \in 0..aces : RefRaw(cards) - 10 * k <= 21}
    IN  IF ok = {} THEN aces ELSE CHOOSE k \in ok : \A j \in ok : k <= j

RefTotal(cards) == RefRaw(cards) - 10 * RefDemotions(cards)

\* an Ace is still counted as 11
RefSoft(cards) == RefDemotions(cards) < Occurrences(cards, "A")

RefMustHit(cards) ==
    RefTotal(cards) < 17 \/ (RefTotal(cards) = 17 /\ RefSoft(cards))

Front(cards) == SubSeq(cards, 1, Len(cards) - 1)

PriorityOrder == <<"hit", "stand", "double", "split">>

Priority(a) == CHOOSE k \in 1..Len(PriorityOrder) : PriorityOrder[k] = a

ClaimLegal(cards) ==
    IF RefTotal(cards) = 21 THEN {"stand"}
    ELSE {"hit", "stand"}
         \cup (IF Len(cards) = 2 THEN {"double"} ELSE {})
         \cup (IF Len(cards) = 2 /\ RefRankValue(cards[1]) = RefRankValue(cards[2])
               THEN {"split"} ELSE {})

EvReturned == op = "decide" /\ pc \in {"ev_done", "done"}

DecisionReturned == op = "decide" /\ pc = "done"

\* ------------------------------------------------------------------------
\* C1: for a hand of 21 or less the keys of the EV map are exactly the legal
\* actions: stand alone on 21; otherwise hit and stand, double iff two cards,
\* split iff two cards of equal rank-value. A hand of 21 is answered "stand".
\* ------------------------------------------------------------------------
C1_LegalActionKeys ==
    (EvReturned /\ RefTotal(player_cards) <= 21) =>
        /\ Keys(expected_values) = ClaimLegal(player_cards)
        /\ Len(expected_values) = Cardinality(ClaimLegal(player_cards))
        /\ (pc = "done" /\ RefTotal(player_cards) = 21) => result.action = "stand"

C1_Witness ==
    /\ DecisionReturned
    /\ Len(player_cards) = 2
    /\ Keys(result.all_expected_values) = {"hit", "stand", "double", "split"}

\* ------------------------------------------------------------------------
\* C2: the returned action has the greatest EV of the map, and among the
\* actions of greatest EV it is the first in the order hit, stand, double, split.
\* ------------------------------------------------------------------------
C2_ArgmaxFirst ==
    DecisionReturned =>
        LET evs == result.all_expected_values
        IN  \E i \in 1..Len(evs) :
              /\ evs[i][1] = result.action
              /\ evs[i][2] = result.expected_value
              /\ \A j \in 1..Len(evs) :
                    /\ evs[j][2] <= evs[i][2]
                    /\ evs[j][2] = evs[i][2] =>
                          Priority(result.action) <= Priority(evs[j][1])

C2_Witness ==
    /\ DecisionReturned
    /\ result.action = "stand"
    /\ \E j \in 1..Len(result.all_expected_values) :
          /\ result.all_expected_values[j][1] = "double"
          /\ result.all_expected_values[j][2] = result.expected_value
    /\ \E j \in 1..Len(result.all_expected_values) :
          /\ result.all_expected_values[j][1] = "hit"
          /\ result.all_expected_values[j][2] < result.expected_value

\* ------------------------------------------------------------------------
\* C3: a hand over 21 short-circuits: the EV map is {stand: -1.0}, the answer
\* is stand with EV -1.0 whatever the true count, and no trial is run (no
\* card drawn, no dealer played).
\* ------------------------------------------------------------------------
C3_BustShortCircuit ==
    (op = "decide" /\ RefTotal(player_cards) > 21) =>
        /\ pc \in {"ev_done", "done"}
        /\ expected_values = << <<"stand", -EvScale>> >>
        /\ draws = 0 /\ round = 0 /\ total_simulations = 0
        /\ player_hand = <<>> /\ dealer_cards = <<>>
        /\ pc = "done" =>
              /\ result.action = "stand"
              /\ result.expected_value = -EvScale
              /\ result.all_expected_values = << <<"stand", -EvScale>> >>

C3_Witness ==
    /\ DecisionReturned
    /\ RefTotal(player_cards) > 21
    /\ true_count # 0
    /\ result.action = "stand"

\* ------------------------------------------------------------------------
\* C4: the net return of a completed trial with multiplier m (2 for double,
\* else 1): -m if the player is over 21, the dealer then not being played;
\* otherwise +m if the dealer is over 21 or below the player, -m if the
\* dealer is in 17..21 and above the player, 0 on equal totals; no other value.
\* ------------------------------------------------------------------------
C4_NetReturn ==
    pc = "settled" =>
        LET m == IF action = "double" THEN 2 ELSE 1
            p == RefTotal(player_hand)
            d == RefTotal(dealer_cards)
        IN  /\ net \in {-m, 0, m}
            /\ total_simulations = 1 => wins = net
            /\ p > 21 => (net = -m /\ dealer_cards = <<>>)
            /\ p <= 21 =>
                  /\ dealer_cards # <<>>
                  /\ (d > 21 \/ d < p) => net = m
                  /\ (d \in 17..21 /\ d > p) => net = -m
                  /\ d = p => net = 0

C4_Witness ==
    /\ pc = "settled"
    /\ action = "double"
    /\ RefTotal(player_hand) <= 21
    /\ RefTotal(dealer_cards) \in 17..21
    /\ RefTotal(dealer_cards) > RefTotal(player_hand)
    /\ net = -2

\* ------------------------------------------------------------------------
\* C5: the dealer draws exactly when its total is below 17 or a soft 17 and
\* a card is left; the total it returns is over 21, or in 17..21 and not a
\* soft 17, or else the pool is used up; never below 17 with a card left.
\* ------------------------------------------------------------------------
C5_DealerRule ==
    dealer_cards # <<>> =>
        /\ dealer_value = RefTotal(dealer_cards)
        /\ (Len(dealer_cards) - 1) + Len(dealer_deck) = PoolSize(dealer_pool)
        /\ Len(dealer_cards) >= 2 => RefMustHit(Front(dealer_cards))
        /\ pc # "dealer" =>
              \/ dealer_value > 21
              \/ dealer_value \in 17..21 /\ ~RefMustHit(dealer_cards)
              \/ dealer_deck = <<>>

C5_Witness ==
    /\ op = "dealer"
    /\ pc = "done"
    /\ dealer_cards = <<"A", "6", "10">>
    /\ result.value = 17

\* ------------------------------------------------------------------------
\* C6: calculate_hand_value returns the reference (total, is_soft): Aces as
\* 11, demoted one at a time while the total is over 21; soft iff an Ace is
\* still 11. A total over 21 has no Ace at 11, soft implies 11 <= total <= 21,
\* [A,K] = (21, soft), [A,A,9] = (21, soft), [10,7,4] = (21, hard), [] = (0, hard).
\* ------------------------------------------------------------------------
C6_HandValue ==
    result.kind = "value" =>
        /\ result.total = RefTotal(player_cards)
        /\ result.is_soft = RefSoft(player_cards)
        /\ result.total > 21 => ~result.is_soft
        /\ result.is_soft => (11 <= result.total /\ result.total <= 21)
        /\ player_cards = <<"A", "K">> => (result.total = 21 /\ result.is_soft)
        /\ player_cards = <<"A", "A", "9">> => (result.total = 21 /\ result.is_soft)
        /\ player_cards = <<"10", "7", "4">> => (result.total = 21 /\ ~result.is_soft)
        /\ player_cards = <<>> => (result.total = 0 /\ ~result.is_soft)

C6_Witness ==
    /\ result.kind = "value"
    /\ player_cards = <<"A", "A", "9">>
    /\ result.total = 21
    /\ result.is_soft

\* ------------------------------------------------------------------------
\* C7: for a deck count d >= 1 and any seen list, get_remaining_cards gives
\* each of the 13 ranks max(0, 4*d - occurrences of the rank), 10, J, Q, K
\* apart; never negative; the sum is 52*d - len(seen) when no rank is seen
\* more than 4*d times.
\* ------------------------------------------------------------------------
ClaimRemaining(seen, r) == Max2(0, 4 * num_decks - Occurrences(seen, r))

C7_RemainingCards ==
    result.kind = "remaining" =>
        /\ DOMAIN result.remaining = Rank
        /\ \A r \in Rank :
              /\ result.remaining[r] = ClaimRemaining(seen_cards, r)
              /\ result.remaining[r] >= 0
        /\ (\A r \in Rank : Occurrences(seen_cards, r) <= 4 * num_decks) =>
              PoolSize(result.remaining) = 52 * num_decks - Len(seen_cards)

C7_Witness ==
    /\ result.kind = "remaining"
    /\ Occurrences(seen_cards, "J") > 4 * num_decks
    /\ result.remaining["J"] = 0
    /\ result.remaining["10"] = 4 * num_decks

\* ------------------------------------------------------------------------
\* C8: the pool a decision samples from has the player's own cards and the
\* dealer's upcard removed, whatever the seen list: per rank, 4*decks minus
\* the occurrences in hand, upcard and seen list together, clamped at 0.
\* ------------------------------------------------------------------------
C8_PoolExcludesKnownCards ==
    (op = "decide" /\ pc # "idle") =>
        \A r \in Rank :
            remaining_cards[r] =
                Max2(0, 4 * num_decks
                        - (Occurrences(player_cards, r)
                           + (IF dealer_upcard = r THEN 1 ELSE 0)
                           + Occurrences(seen_cards, r)))

\* ------------------------------------------------------------------------
\* C10: no call changes the engine's fields or the caller's player_cards,
\* seen_cards and remaining_cards; every trial starts from the caller's hand
\* and pool.
\* ------------------------------------------------------------------------
C10_Frame ==
    [][/\ engineVars' = engineVars
       /\ (pc # "idle" /\ pc' # "idle") =>
             /\ player_cards' = player_cards
             /\ seen_cards' = seen_cards
             /\ remaining_cards' = remaining_cards
             /\ dealer_upcard' = dealer_upcard
       /\ (pc = "trial" /\ round' = round + 1) =>
             /\ player_hand' = player_cards
             /\ deck_copy' = remaining_cards
             /\ deck' = Flatten(remaining_cards)]_vars

C10_Witness ==
    /\ DecisionReturned
    /\ draws >= 3
    /\ Len(result.all_expected_values) = 4
    /\ player_cards # <<>>

\* ------------------------------------------------------------------------
\* C11: calculate_running_count is the sum of the system's tags of the cards,
\* a token that is no rank of the system counting 0 (server.py reads the
\* token in upper case and counts in halves); Hi-Lo tags 2-6 as +1, 7-9 as 0
\* and 10, J, Q, K, A as -1, so [2,3,4,5,6] is 5, [10,J,Q,K,A] is -5 and
\* [7,8,9] is 0; a system name outside the catalog gives an error, no count.
\* ------------------------------------------------------------------------
RefHiLo(r) ==
    LET i == CHOOSE j \in 1..Len(RankOrder) : RankOrder[j] = r
    IN  IF i \in 2..6 THEN 1 ELSE IF i \in 7..9 THEN 0 ELSE -1

RECURSIVE SumOfSet(_, _)
SumOfSet(f, S) ==
    IF S = {} THEN 0
    ELSE LET x == CHOOSE y \in S : TRUE IN f[x] + SumOfSet(f, S \ {x})

\* tag of each rank times the number of times the rank occurs
RefCount(tags, cards) ==
    SumOfSet([r \in DOMAIN tags |-> tags[r] * Occurrences(cards, r)], DOMAIN tags)

UpperAll(cards) == [i \in 1..Len(cards) |-> Upper(cards[i])]

ServerTags(system) ==
    [r \in DOMAIN ServerSystems[system].low \cup DOMAIN ServerSystems[system].neutral
           \cup DOMAIN ServerSystems[system].high |->
        IF r \in DOMAIN ServerSystems[system].low THEN ServerSystems[system].low[r]
        ELSE IF r \in DOMAIN ServerSystems[system].high THEN ServerSystems[system].high[r]
        ELSE 0]

C11_RunningCount ==
    /\ (pc = "done" /\ op = "running_count") =>
          IF request.system \in DOMAIN COUNTING_SYSTEMS
          THEN /\ result.kind = "count"
               /\ result.value = RefCount(COUNTING_SYSTEMS[request.system], request.cards)
               /\ request.system = "hiLo" =>
                     /\ result.value = RefCount([r \in Rank |-> RefHiLo(r)], request.cards)
                     /\ request.cards = <<"2", "3", "4", "5", "6">> => result.value = 5
                     /\ request.cards = <<"10", "J", "Q", "K", "A">> => result.value = -5
                     /\ request.cards = <<"7", "8", "9">> => result.value = 0
          ELSE result.kind = "error"
    /\ (pc = "done" /\ op = "server_running_count") =>
          IF request.system \in DOMAIN ServerSystems
          THEN /\ result.kind = "count"
               /\ result.value = RefCount(ServerTags(request.system),
                                          UpperAll(request.cards))
               /\ request.system = "hiLo" =>
                     result.value =
                        2 * RefCount([r \in Rank |-> RefHiLo(r)], UpperAll(request.cards))
          ELSE result.kind = "error"

C11_Witness ==
    /\ pc = "done"
    /\ op = "running_count"
    /\ request.system = "hiLo"
    /\ request.cards = <<"2", "X", "A">>
    /\ result.kind = "count"
    /\ result.value = 0

C11_WitnessUnknownSystem ==
    /\ pc = "done"
    /\ op = "running_count"
    /\ request.system = "halves"
    /\ result.kind = "error"

\* ------------------------------------------------------------------------
\* C12: with exactly 0.5 decks remaining the true count of server.py is still
\* running_count / 0.5, the forced zero applying only below 0.5:
\* (3, 3.0) gives 1.0, (2, 0.5) gives 4.0 and (x, 0.3) gives 0.0 for every x.
\* ------------------------------------------------------------------------
C12_TrueCountAtHalfDeck ==
    (pc = "done" /\ op = "server_true_count") =>
        /\ (request.running_count = 3 /\ request.deck_tenths = 30) => result.tenths = 10
        /\ (request.running_count = 2 /\ request.deck_tenths = 5) => result.tenths = 40
        /\ request.deck_tenths = 3 => result.tenths = 0
        /\ (request.deck_tenths = 5 /\ 2 * request.running_count \in -20..20) =>
              result.tenths = 20 * request.running_count

\* ------------------------------------------------------------------------
\* C13: the calculate_true_count of utils.counting_systems returns 0.0
\* whenever decks_remaining <= 0.5, and otherwise
\* running_count / decks_remaining clamped to [-20, 20].
\* ------------------------------------------------------------------------
C13_ExportedTrueCount ==
    (pc = "done" /\ op = "true_count") =>
        IF request.deck_tenths <= 5
        THEN result.num = 0
        ELSE LET n == 10 * request.running_count
                 d == request.deck_tenths
             IN  /\ result.den > 0
                 /\ n > 20 * d => result.num = 20 * result.den
                 /\ n < -20 * d => result.num = -20 * result.den
                 /\ (n <= 20 * d /\ n >= -20 * d) => result.num * d = n * result.den

\* ------------------------------------------------------------------------
\* C14: calculate_kelly_bet with valid limits: if edge <= 0 or true_count <= 0
\* it returns bet_amount = min_bet, both fractions 0 and risk "low", for every
\* bankroll; otherwise kelly_fraction = edge / 1.3 and conservative_fraction
\* = kelly_fraction / 4 (each reported rounded to 4 decimals), and the risk
\* is "low" below 0.01, "medium" below 0.03, "high" from 0.03 on.
\* ------------------------------------------------------------------------
ValidLimits(r) == r.bankroll > 0 /\ r.min_bet > 0 /\ r.min_bet <= r.max_bet

\* v is n / d rounded to a whole number
IsRounding(v, n, d) == 2 * (v * d - n) <= d /\ 2 * (n - v * d) <= d

C14_KellyBet ==
    (pc = "done" /\ op = "kelly_bet" /\ ValidLimits(request)) =>
        /\ result.kind = "kelly"
        /\ IF request.edge <= 0 \/ request.true_count <= 0
           THEN /\ result.bet_amount = 100 * request.min_bet
                /\ result.kelly_fraction = 0
                /\ result.conservative_fraction = 0
                /\ result.risk_level = "low"
           ELSE /\ 1300 * result.kelly.num = request.edge * result.kelly.den
                /\ 4 * result.conservative.num * result.kelly.den
                      = result.kelly.num * result.conservative.den
                /\ IsRounding(result.kelly_fraction, 10000 * result.kelly.num,
                              result.kelly.den)
                /\ IsRounding(result.conservative_fraction,
                              10000 * result.conservative.num, result.conservative.den)
                /\ 100 * result.kelly.num < result.kelly.den
                      => result.risk_level = "low"
                /\ (100 * result.kelly.num > result.kelly.den
                    /\ 100 * result.kelly.num < 3 * result.kelly.den)
                      => result.risk_level = "medium"
                /\ 100 * result.kelly.num > 3 * result.kelly.den
                      => result.risk_level = "high"
                /\ 100 * result.kelly.num = result.kelly.den
                      => result.risk_level \in {"low", "medium"}
                /\ 100 * result.kelly.num = 3 * result.kelly.den
                      => result.risk_level \in {"medium", "high"}

C14_Witness ==
    /\ pc = "done"
    /\ op = "kelly_bet"
    /\ ValidLimits(request)
    /\ request.edge = 20
    /\ request.true_count > 0
    /\ result.risk_level = "medium"
    /\ result.kelly_fraction = 154
    /\ result.conservative_fraction = 38

\* ------------------------------------------------------------------------
\* C15: manage_bankroll: for every request with true_count <= 0 the
\* recommended_bet equals min_bet and kelly_bet is 0, whatever the bankroll
\* and the risk tolerance.
\* ------------------------------------------------------------------------
C15_MinBetAtNonPositiveCount ==
    (pc = "done" /\ op = "bankroll_calculate" /\ result.kind = "bankroll"
     /\ request.true_count <= 0) =>
        /\ result.recommended_bet = 100 * request.min_bet
        /\ result.kelly_bet = 0

\* ------------------------------------------------------------------------
\* C16: invalid limits fail fast: calculate_kelly_bet raises and returns no
\* recommendation when bankroll <= 0, min_bet <= 0, max_bet <= 0 or
\* min_bet > max_bet; the BankrollRequest schema rejects every request with
\* min_bet > max_bet before any sizing is computed.
\* ------------------------------------------------------------------------
C16_InvalidLimits ==
    /\ (pc = "done" /\ op = "kelly_bet") =>
          IF request.bankroll <= 0 \/ request.min_bet <= 0 \/ request.max_bet <= 0
             \/ request.min_bet > request.max_bet
          THEN result = [kind |-> "error", error |-> "ValueError"]
          ELSE result.kind = "kelly"
    /\ (pc = "done" /\ op \in {"bankroll_calculate", "fixed_bankroll"}
        /\ request.min_bet > request.max_bet) =>
          result = [kind |-> "rejected"]

C16_Witness ==
    /\ pc = "done"
    /\ op = "bankroll_calculate"
    /\ request.bankroll > 0
    /\ request.risk_tolerance = 2
    /\ request.max_bet > 0
    /\ request.min_bet > request.max_bet
    /\ result.kind = "rejected"

\* ------------------------------------------------------------------------
\* C17: for every valid request (bankroll > 0, 0 < min_bet <= max_bet, risk
\* tolerance in (0, 1]) the bet each sizer computes before rounding
\* (calculate_kelly_bet, _calculate_recommended_bet, the /bankroll handler of
\* server_fixed) satisfies min_bet <= bet <= max_bet.
\* ------------------------------------------------------------------------
BetWithinLimits ==
    /\ request.min_bet * result.bet.den <= result.bet.num
    /\ result.bet.num <= request.max_bet * result.bet.den

C17_BetWithinLimits ==
    /\ (pc = "done" /\ op = "kelly_bet" /\ ValidLimits(request)) =>
          (result.kind = "kelly" /\ BetWithinLimits)
    /\ (pc = "done" /\ op \in {"bankroll_calculate", "fixed_bankroll"}
        /\ ValidLimits(request)
        /\ request.risk_tolerance > 0 /\ request.risk_tolerance <= 100) =>
          (result.kind = "bankroll" /\ BetWithinLimits)

C17_Witness ==
    /\ pc = "done"
    /\ op = "fixed_bankroll"
    /\ result.kind = "bankroll"
    /\ request.min_bet < request.max_bet
    /\ result.bet.num = request.max_bet * result.bet.den
    /\ result.kelly_bet > 100 * request.max_bet

\* ------------------------------------------------------------------------
\* C18: for the hand [8,8] against a 10 with no seen card and true count 0,
\* split is among the legal actions and the returned action is one of hit,
\* stand, split, never double, whatever cards the trials sample.
\* ------------------------------------------------------------------------
C18_PairNeverDoubles ==
    (DecisionReturned /\ player_cards = <<"8", "8">> /\ dealer_upcard = "10"
     /\ seen_cards = <<>> /\ true_count = 0) =>
        /\ "split" \in Keys(result.all_expected_values)
        /\ result.action \in {"hit", "stand", "split"}

\* the EVs of the returned map under the actions other than the selected one
OtherEvs ==
    {result.all_expected_values[i][2] :
        i \in {j \in 1..Len(result.all_expected_values) :
                  result.all_expected_values[j][1] # result.action}}

GreatestOf(S) == CHOOSE m \in S : \A x \in S : x <= m

\* ------------------------------------------------------------------------
\* C19: the confidence of a decision is the absolute difference between the
\* selected action's EV and the largest EV among the other legal actions; it
\* is never negative, and it is 0 when only one action is legal (a total of
\* 21, or a bust hand).
\* ------------------------------------------------------------------------
C19_Confidence ==
    DecisionReturned =>
        /\ result.confidence >= 0
        /\ OtherEvs # {} =>
             \/ result.confidence = result.expected_value - GreatestOf(OtherEvs)
             \/ result.confidence = GreatestOf(OtherEvs) - result.expected_value
        /\ Len(result.all_expected_values) = 1 => result.confidence = 0
        /\ HandTotal(player_cards) >= 21 =>
             /\ Len(result.all_expected_values) = 1
             /\ result.confidence = 0

\* a decision among several actions whose best EV is strictly ahead
C19_Witness ==
    /\ DecisionReturned
    /\ Len(result.all_expected_values) >= 2
    /\ result.confidence > 0
    /\ result.confidence = result.expected_value - GreatestOf(OtherEvs)

\* a decision on a total of 21 whose single action has a non-zero EV
C19_WitnessSingle ==
    /\ DecisionReturned
    /\ HandTotal(player_cards) = 21
    /\ result.all_expected_values[1][2] # 0
    /\ result.confidence = 0

\* the cards the dealer has drawn to the upcard
DealerDrawn == Tail(dealer_cards)

DealerBounded ==
    dealer_cards # <<>> =>
        /\ Len(DealerDrawn) + Len(dealer_deck) = PoolSize(dealer_pool)
        /\ Len(DealerDrawn) <= PoolSize(dealer_pool)
        /\ \A r \in Rank : Occurrences(DealerDrawn, r) <= Get(dealer_pool, r)
        /\ op = "dealer" => draws = Len(DealerDrawn)

DealerIteration ==
    (pc = "dealer" /\ dealer_cards' # dealer_cards /\ pc' \in {"dealer", "done"}) =>
        /\ Len(dealer_deck') = Len(dealer_deck) - 1
        /\ dealer_pool' = dealer_pool
        /\ remaining_cards' = remaining_cards

\* ------------------------------------------------------------------------
\* C20: simulate_dealer_hand always terminates. Every iteration of its loop
\* removes one card from its own flattened copy of the pool (the pool it was
\* given is untouched), so it has drawn at most as many cards as the pool
\* holds, never more copies of a rank than the pool contains, and a running
\* call always returns.
\* ------------------------------------------------------------------------
C20_DealerTerminates ==
    /\ []DealerBounded
    /\ [][DealerIteration]_vars
    /\ (pc = "dealer") ~> (pc = "done")

\* the dealer has drawn the whole pool and returns because the deck is empty
C20_Witness ==
    /\ op = "dealer"
    /\ pc = "done"
    /\ PoolSize(dealer_pool) >= 2
    /\ Len(DealerDrawn) = PoolSize(dealer_pool)
    /\ dealer_deck = <<>>
    /\ DealerHits(dealer_value, is_soft)

\* ------------------------------------------------------------------------
\* C21: the shoe tracker rejects a non-positive deck count: with decks <= 0
\* get_remaining_cards fails with an invalid-deck-count error and returns no
\* mapping.
\* ------------------------------------------------------------------------
C21_ShoeRejectsNonPositiveDecks ==
    (op = "remaining" /\ pc = "done" /\ num_decks <= 0) =>
        /\ result.kind = "error"
        /\ result.kind # "remaining"

\* ------------------------------------------------------------------------
\* C22: validate_counting_system and the COUNTING_SYSTEMS catalog agree: a
\* name the validator accepts, and the normalized name it returns, is a key
\* of the catalog, so calculate_running_count does not fail on it; and every
\* key of the catalog is accepted by the validator.
\* ------------------------------------------------------------------------
C22_ValidationAgreesWithCatalog ==
    (op = "validate_system" /\ pc = "done") =>
        /\ result.kind = "system" =>
              /\ result.value \in DOMAIN COUNTING_SYSTEMS
              /\ calculate_running_count(<<>>, result.value).kind = "count"
        /\ request.system \in DOMAIN COUNTING_SYSTEMS => result.kind = "system"

\* the cards of rank r the player has drawn in the running trial
PlayerDrawn(r) == Get(deck_copy, r) - Occurrences(deck, r)

\* ------------------------------------------------------------------------
\* C23: in every trial of simulate_player_action the dealer is played from
\* the pool left after the player's draws: for each rank, the cards of the
\* rank drawn by the player plus those drawn by the dealer never exceed the
\* rank's count in the remaining_cards mapping the trial started from.
\* ------------------------------------------------------------------------
C23_DealerPlaysPostDrawPool ==
    (op \in {"action", "decide"} /\ pc \in {"dealer", "outcome"}) =>
        \A r \in Rank :
            PlayerDrawn(r) + Occurrences(Tail(dealer_cards), r)
                <= Get(remaining_cards, r)

\* a step of a hit trial that draws a card onto the player's hand
HitTrialDraws ==
    /\ pc = "hit"
    /\ action = "hit"
    /\ Len(player_hand') = Len(player_hand) + 1

\* ------------------------------------------------------------------------
\* C24: in a hit trial the player hits on 16 or less and stands on 17 or
\* more: apart from the first card, which the action itself takes, no card
\* is drawn onto a hand whose total is already 17 or more, and no card at
\* all is drawn onto a total of 21 or more.
\* ------------------------------------------------------------------------
C24_HitStandsOn17 ==
    [][HitTrialDraws =>
          /\ RefTotal(player_hand) < 21
          /\ Len(player_hand) > Len(player_cards) => RefTotal(player_hand) < 17]_vars

\* the hand for which split is offered: two cards of equal rank-value
SplitOffered ==
    /\ Len(player_cards) = 2
    /\ RefRankValue(player_cards[1]) = RefRankValue(player_cards[2])

\* ------------------------------------------------------------------------
\* C25: for every two-card hand for which split is offered (equal
\* rank-value, a 10 with a K included), each split trial plays one post-split
\* hand: one card of the pair plus one card drawn from the pool, never the
\* original two-card hand.
\* ------------------------------------------------------------------------
C25_SplitPlaysOneHand ==
    (action = "split" /\ SplitOffered /\ pc \in {"evaluate", "dealer", "outcome"}) =>
        /\ Len(player_hand) = 2
        /\ player_hand[1] = player_cards[1]
        /\ Len(deck) = PoolSize(deck_copy) - 1
        /\ Occurrences(deck, player_hand[2]) = Get(deck_copy, player_hand[2]) - 1

\* between two trials of simulate_player_action, or after the last one
BetweenTrials == op \in {"action", "decide"} /\ pc = "trial"

\* ------------------------------------------------------------------------
\* C26: an exhausted shoe does not drop the trial: every trial run so far is
\* counted in the averaging denominator, and a trial that found the pool
\* empty is settled by comparing the player's total with the dealer's
\* current total.
\* ------------------------------------------------------------------------
C26_ExhaustedShoeCounted ==
    BetweenTrials =>
        /\ total_simulations = round
        /\ (round >= 1 /\ PoolSize(remaining_cards) = 0
            /\ RefTotal(player_hand) <= 21) =>
              LET p == RefTotal(player_hand)
                  d == RefTotal(<<dealer_upcard>>)
              IN  /\ p > d => net > 0
                  /\ p < d => net < 0
                  /\ p = d => net = 0

\* with a card in the pool every trial is counted
TrialsCountedWithCards ==
    (BetweenTrials /\ PoolSize(remaining_cards) > 0) => total_simulations = round

\* true_count * 0.005 in 1/EvScale units
RefAdjustment == (true_count * EvScale) \div 200

\* the average of the trials of the running action in 1/EvScale units
RefAverage ==
    IF total_simulations = 0 THEN 0 ELSE (wins * EvScale) \div total_simulations

\* the simulated averages behind the returned EV map
BaseEvs ==
    [i \in 1..Len(result.all_expected_values) |->
        <<result.all_expected_values[i][1],
          result.all_expected_values[i][2] - RefAdjustment>>]

\* the first action of greatest value in a list of <<action, value>> pairs
FirstBest(items) ==
    LET i == CHOOSE k \in 1..Len(items) :
                 /\ \A j \in 1..Len(items) : items[j][2] <= items[k][2]
                 /\ \A j \in 1..(k - 1) : items[j][2] < items[k][2]
    IN  items[i]

\* the gap between the best and the best other value of the list
GapOf(items) ==
    LET best == FirstBest(items)
        rest == {items[j][2] : j \in {k \in 1..Len(items) : items[k][1] # best[1]}}
    IN  IF rest = {} THEN 0 ELSE best[2] - GreatestOf(rest)

EvRecorded ==
    (op = "decide" /\ pc = "trial" /\ pc' = "actions") =>
        expected_values' =
            Append(expected_values, <<action, RefAverage + RefAdjustment>>)

\* ------------------------------------------------------------------------
\* C27: the true-count adjustment is the same constant for every legal
\* action: each reported EV is the action's simulated average plus
\* true_count * 0.005. So the EV differences between the actions, the
\* selected action and the confidence are those of the simulated averages
\* alone and do not depend on the true count.
\* ------------------------------------------------------------------------
C27_UniformCountAdjustment ==
    /\ [][EvRecorded]_vars
    /\ [](DecisionReturned /\ RefTotal(player_cards) <= 21 =>
            /\ result.action = FirstBest(BaseEvs)[1]
            /\ result.expected_value = FirstBest(BaseEvs)[2] + RefAdjustment
            /\ result.confidence = GapOf(BaseEvs)
            /\ \A i, j \in 1..Len(BaseEvs) :
                  result.all_expected_values[i][2] - result.all_expected_values[j][2]
                      = BaseEvs[i][2] - BaseEvs[j][2])

\* a decision at a non-zero true count among actions of different averages
C27_Witness ==
    /\ DecisionReturned
    /\ true_count = 3
    /\ Len(result.all_expected_values) >= 3
    /\ result.confidence > 0
    /\ result.expected_value = FirstBest(BaseEvs)[2] + 3 * (EvScale \div 200)

\* the limit of a rate-limit key
LimitOfKey(key) == RATE_LIMITS[key[2]]

\* a step that answers 429 to invocation i
Answers429(i) == requests[i].pc = "checked" /\ requests'[i].status = 429

\* ------------------------------------------------------------------------
\* C28: rate_limit_middleware never lets a client exceed its limit: for
\* every key and every interleaving of concurrent requests, the requests
\* counted and forwarded while the key's counter has not expired number at
\* most the limit (60 default, 30 strategy, 10 intensive); a request
\* answered 429 is neither forwarded nor counted.
\* ------------------------------------------------------------------------
C28_RateLimitNeverExceeded ==
    /\ [](\A key \in DOMAIN redis_store : redis_store[key] <= LimitOfKey(key))
    /\ [][\A i \in Slots :
            Answers429(i) =>
                /\ redis_store' = redis_store
                /\ requests'[i].pc = "responded"]_vars

\* the pool of the decision and the cards of it that bust the hand on a hit
ClaimPool == [r \in Rank |-> ClaimRemaining(seen_cards, r)]

ClaimBustCards ==
    SumOfSet([r \in Rank |->
                 IF RefTotal(Append(player_cards, r)) > 21 THEN ClaimPool[r] ELSE 0],
             Rank)

\* ------------------------------------------------------------------------
\* C29: the bust_probability of a decision is the bust probability if
\* hitting: the number of remaining cards c whose Hand Valuer total of
\* hand + [c] is over 21, divided by the number of remaining cards (by 1 for
\* an empty shoe). A card a soft hand absorbs by re-valuing an Ace is no bust
\* card; the value is 0 when hit is not legal, and it lies in [0, 1].
\* ------------------------------------------------------------------------
C29_BustProbability ==
    DecisionReturned =>
        /\ result.bust_probability[1] >= 0
        /\ result.bust_probability[1] <= result.bust_probability[2]
        /\ IF "hit" \in Keys(result.all_expected_values)
           THEN result.bust_probability =
                    <<ClaimBustCards, Max2(SumOfSet(ClaimPool, Rank), 1)>>
           ELSE result.bust_probability[1] = 0

\* the EVs the returned map holds under the returned action
EvsOfReturnedAction ==
    {result.all_expected_values[i][2] :
        i \in {j \in 1..Len(result.all_expected_values) :
                  result.all_expected_values[j][1] = result.action}}

\* ------------------------------------------------------------------------
\* C30: in every decision the returned action is a key of the returned
\* all_expected_values map, expected_value is the map's value under that
\* action, and the action is never double or split for a hand that does not
\* have exactly two cards.
\* ------------------------------------------------------------------------
C30_ActionInMap ==
    DecisionReturned =>
        /\ result.action \in Keys(result.all_expected_values)
        /\ EvsOfReturnedAction = {result.expected_value}
        /\ Len(player_cards) # 2 => result.action \notin {"double", "split"}

\* a three-card hand answered after its trials, and a two-card hand doubled
C30_Witness ==
    /\ DecisionReturned
    /\ Len(player_cards) = 3
    /\ RefTotal(player_cards) < 21
    /\ draws >= 1
    /\ result.action = "hit"
    /\ result.expected_value > 0

C30_WitnessDouble ==
    /\ DecisionReturned
    /\ Len(player_cards) = 2
    /\ result.action = "double"

====
